---------------------------- MODULE Spec2Model ----------------------------
(***************************************************************************)
(* Model of the two programs of the repository:                            *)
(*   - the Drive organiser, organizeDrive (drive_apps_script.js);          *)
(*   - the floating API cost widget (cost_widget.js, unnamed/part_002).    *)
(* Strings are sequences of tokens, one per UTF-16 code unit: a printable  *)
(* ASCII character is itself, any other code unit (and the double quote,   *)
(* the backslash and the backquote) is "uXXXX", its value in hex.          *)
(***************************************************************************)
EXTENDS Integers, Sequences, FiniteSets, TLC

VARIABLES
  \* organizeDrive's classification of one item, taken alone
  cKind, cName, cTarget,
  \* the Drive store: the items of the root, the containers holding each,
  \* the main folder the script created, the category folders inside it
  items, parents, mainCreated, catFolders,
  \* organizeDrive's execution: position, locals, Logger output
  pc, runs, prev, mainFolder, catIdx, createdCats, rootFiles, rootFolders,
  cur, targetCat, movedCount, log,
  \* the cost widget: the toggle flag, the DOM it writes, the calls of
  \* fetchCostData in flight, and the record of what was dispatched and done
  isOpen, panelVisible, body, lastUpdate, btnBackground,
  inflight, dispatched, lastOk, lastDone,
  \* the endpoints: "any" when nothing is known of their answers, "down"
  \* while unreachable, "up" once they have recovered for good
  server,
  \* the budget card's colours and the button's background for one summary,
  \* taken alone
  rPct, rStatus, rOut, rBtn

cvars == <<cKind, cName, cTarget>>

store == <<items, parents, mainCreated, catFolders>>

locals == <<mainFolder, catIdx, createdCats, rootFiles, rootFolders,
            cur, targetCat, movedCount, log>>

dvars == <<store, pc, runs, prev, locals>>

dom == <<body, lastUpdate, btnBackground>>

wvars == <<isOpen, panelVisible, dom, inflight, dispatched, lastOk, lastDone,
           server>>

rvars == <<rPct, rStatus, rOut, rBtn>>

vars == <<cvars, dvars, wvars, rvars>>

-----------------------------------------------------------------------------
(* JavaScript string and array primitives used by the code.                *)

UpperChars == <<"A","B","C","D","E","F","G","H","I","J","K","L","M",
                "N","O","P","Q","R","S","T","U","V","W","X","Y","Z">>

LowerChars == <<"a","b","c","d","e","f","g","h","i","j","k","l","m",
                "n","o","p","q","r","s","t","u","v","w","x","y","z">>

Digits == {"0","1","2","3","4","5","6","7","8","9"}

SetMin(S) == CHOOSE x \in S : \A y \in S : x <= y

SetMax(S) == CHOOSE x \in S : \A y \in S : x >= y

\* the lower-case mapping of the Unicode character database (17.0) for the code
\* units outside ASCII that have one: a code unit to its lower-case code unit
LowerOfBMP ==
  [
    u00C0 |-> "u00E0", u00C1 |-> "u00E1", u00C2 |-> "u00E2",
    u00C3 |-> "u00E3", u00C4 |-> "u00E4", u00C5 |-> "u00E5",
    u00C6 |-> "u00E6", u00C7 |-> "u00E7", u00C8 |-> "u00E8",
    u00C9 |-> "u00E9", u00CA |-> "u00EA", u00CB |-> "u00EB",
    u00CC |-> "u00EC", u00CD |-> "u00ED", u00CE |-> "u00EE",
    u00CF |-> "u00EF", u00D0 |-> "u00F0", u00D1 |-> "u00F1",
    u00D2 |-> "u00F2", u00D3 |-> "u00F3", u00D4 |-> "u00F4",
    u00D5 |-> "u00F5", u00D6 |-> "u00F6", u00D8 |-> "u00F8",
    u00D9 |-> "u00F9", u00DA |-> "u00FA", u00DB |-> "u00FB",
    u00DC |-> "u00FC", u00DD |-> "u00FD", u00DE |-> "u00FE",
    u0100 |-> "u0101", u0102 |-> "u0103", u0104 |-> "u0105",
    u0106 |-> "u0107", u0108 |-> "u0109", u010A |-> "u010B",
    u010C |-> "u010D", u010E |-> "u010F", u0110 |-> "u0111",
    u0112 |-> "u0113", u0114 |-> "u0115", u0116 |-> "u0117",
    u0118 |-> "u0119", u011A |-> "u011B", u011C |-> "u011D",
    u011E |-> "u011F", u0120 |-> "u0121", u0122 |-> "u0123",
    u0124 |-> "u0125", u0126 |-> "u0127", u0128 |-> "u0129",
    u012A |-> "u012B", u012C |-> "u012D", u012E |-> "u012F",
    u0132 |-> "u0133", u0134 |-> "u0135", u0136 |-> "u0137",
    u0139 |-> "u013A", u013B |-> "u013C", u013D |-> "u013E",
    u013F |-> "u0140", u0141 |-> "u0142", u0143 |-> "u0144",
    u0145 |-> "u0146", u0147 |-> "u0148", u014A |-> "u014B",
    u014C |-> "u014D", u014E |-> "u014F", u0150 |-> "u0151",
    u0152 |-> "u0153", u0154 |-> "u0155", u0156 |-> "u0157",
    u0158 |-> "u0159", u015A |-> "u015B", u015C |-> "u015D",
    u015E |-> "u015F", u0160 |-> "u0161", u0162 |-> "u0163",
    u0164 |-> "u0165", u0166 |-> "u0167", u0168 |-> "u0169",
    u016A |-> "u016B", u016C |-> "u016D", u016E |-> "u016F",
    u0170 |-> "u0171", u0172 |-> "u0173", u0174 |-> "u0175",
    u0176 |-> "u0177", u0178 |-> "u00FF", u0179 |-> "u017A",
    u017B |-> "u017C", u017D |-> "u017E", u0181 |-> "u0253",
    u0182 |-> "u0183", u0184 |-> "u0185", u0186 |-> "u0254",
    u0187 |-> "u0188", u0189 |-> "u0256", u018A |-> "u0257",
    u018B |-> "u018C", u018E |-> "u01DD", u018F |-> "u0259",
    u0190 |-> "u025B", u0191 |-> "u0192", u0193 |-> "u0260",
    u0194 |-> "u0263", u0196 |-> "u0269", u0197 |-> "u0268",
    u0198 |-> "u0199", u019C |-> "u026F", u019D |-> "u0272",
    u019F |-> "u0275", u01A0 |-> "u01A1", u01A2 |-> "u01A3",
    u01A4 |-> "u01A5", u01A6 |-> "u0280", u01A7 |-> "u01A8",
    u01A9 |-> "u0283", u01AC |-> "u01AD", u01AE |-> "u0288",
    u01AF |-> "u01B0", u01B1 |-> "u028A", u01B2 |-> "u028B",
    u01B3 |-> "u01B4", u01B5 |-> "u01B6", u01B7 |-> "u0292",
    u01B8 |-> "u01B9", u01BC |-> "u01BD", u01C4 |-> "u01C6",
    u01C5 |-> "u01C6", u01C7 |-> "u01C9", u01C8 |-> "u01C9",
    u01CA |-> "u01CC", u01CB |-> "u01CC", u01CD |-> "u01CE",
    u01CF |-> "u01D0", u01D1 |-> "u01D2", u01D3 |-> "u01D4",
    u01D5 |-> "u01D6", u01D7 |-> "u01D8", u01D9 |-> "u01DA",
    u01DB |-> "u01DC", u01DE |-> "u01DF", u01E0 |-> "u01E1",
    u01E2 |-> "u01E3", u01E4 |-> "u01E5", u01E6 |-> "u01E7",
    u01E8 |-> "u01E9", u01EA |-> "u01EB", u01EC |-> "u01ED",
    u01EE |-> "u01EF", u01F1 |-> "u01F3", u01F2 |-> "u01F3",
    u01F4 |-> "u01F5", u01F6 |-> "u0195", u01F7 |-> "u01BF",
    u01F8 |-> "u01F9", u01FA |-> "u01FB", u01FC |-> "u01FD",
    u01FE |-> "u01FF", u0200 |-> "u0201", u0202 |-> "u0203",
    u0204 |-> "u0205", u0206 |-> "u0207", u0208 |-> "u0209",
    u020A |-> "u020B", u020C |-> "u020D", u020E |-> "u020F",
    u0210 |-> "u0211", u0212 |-> "u0213", u0214 |-> "u0215",
    u0216 |-> "u0217", u0218 |-> "u0219", u021A |-> "u021B",
    u021C |-> "u021D", u021E |-> "u021F", u0220 |-> "u019E",
    u0222 |-> "u0223", u0224 |-> "u0225", u0226 |-> "u0227",
    u0228 |-> "u0229", u022A |-> "u022B", u022C |-> "u022D",
    u022E |-> "u022F", u0230 |-> "u0231", u0232 |-> "u0233",
    u023A |-> "u2C65", u023B |-> "u023C", u023D |-> "u019A",
    u023E |-> "u2C66", u0241 |-> "u0242", u0243 |-> "u0180",
    u0244 |-> "u0289", u0245 |-> "u028C", u0246 |-> "u0247",
    u0248 |-> "u0249", u024A |-> "u024B", u024C |-> "u024D",
    u024E |-> "u024F", u0370 |-> "u0371", u0372 |-> "u0373",
    u0376 |-> "u0377", u037F |-> "u03F3", u0386 |-> "u03AC",
    u0388 |-> "u03AD", u0389 |-> "u03AE", u038A |-> "u03AF",
    u038C |-> "u03CC", u038E |-> "u03CD", u038F |-> "u03CE",
    u0391 |-> "u03B1", u0392 |-> "u03B2", u0393 |-> "u03B3",
    u0394 |-> "u03B4", u0395 |-> "u03B5", u0396 |-> "u03B6",
    u0397 |-> "u03B7", u0398 |-> "u03B8", u0399 |-> "u03B9",
    u039A |-> "u03BA", u039B |-> "u03BB", u039C |-> "u03BC",
    u039D |-> "u03BD", u039E |-> "u03BE", u039F |-> "u03BF",
    u03A0 |-> "u03C0", u03A1 |-> "u03C1", u03A3 |-> "u03C3",
    u03A4 |-> "u03C4", u03A5 |-> "u03C5", u03A6 |-> "u03C6",
    u03A7 |-> "u03C7", u03A8 |-> "u03C8", u03A9 |-> "u03C9",
    u03AA |-> "u03CA", u03AB |-> "u03CB", u03CF |-> "u03D7",
    u03D8 |-> "u03D9", u03DA |-> "u03DB", u03DC |-> "u03DD",
    u03DE |-> "u03DF", u03E0 |-> "u03E1", u03E2 |-> "u03E3",
    u03E4 |-> "u03E5", u03E6 |-> "u03E7", u03E8 |-> "u03E9",
    u03EA |-> "u03EB", u03EC |-> "u03ED", u03EE |-> "u03EF",
    u03F4 |-> "u03B8", u03F7 |-> "u03F8", u03F9 |-> "u03F2",
    u03FA |-> "u03FB", u03FD |-> "u037B", u03FE |-> "u037C",
    u03FF |-> "u037D", u0400 |-> "u0450", u0401 |-> "u0451",
    u0402 |-> "u0452", u0403 |-> "u0453", u0404 |-> "u0454",
    u0405 |-> "u0455", u0406 |-> "u0456", u0407 |-> "u0457",
    u0408 |-> "u0458", u0409 |-> "u0459", u040A |-> "u045A",
    u040B |-> "u045B", u040C |-> "u045C", u040D |-> "u045D",
    u040E |-> "u045E", u040F |-> "u045F", u0410 |-> "u0430",
    u0411 |-> "u0431", u0412 |-> "u0432", u0413 |-> "u0433",
    u0414 |-> "u0434", u0415 |-> "u0435", u0416 |-> "u0436",
    u0417 |-> "u0437", u0418 |-> "u0438", u0419 |-> "u0439",
    u041A |-> "u043A", u041B |-> "u043B", u041C |-> "u043C",
    u041D |-> "u043D", u041E |-> "u043E", u041F |-> "u043F",
    u0420 |-> "u0440", u0421 |-> "u0441", u0422 |-> "u0442",
    u0423 |-> "u0443", u0424 |-> "u0444", u0425 |-> "u0445",
    u0426 |-> "u0446", u0427 |-> "u0447", u0428 |-> "u0448",
    u0429 |-> "u0449", u042A |-> "u044A", u042B |-> "u044B",
    u042C |-> "u044C", u042D |-> "u044D", u042E |-> "u044E",
    u042F |-> "u044F", u0460 |-> "u0461", u0462 |-> "u0463",
    u0464 |-> "u0465", u0466 |-> "u0467", u0468 |-> "u0469",
    u046A |-> "u046B", u046C |-> "u046D", u046E |-> "u046F",
    u0470 |-> "u0471", u0472 |-> "u0473", u0474 |-> "u0475",
    u0476 |-> "u0477", u0478 |-> "u0479", u047A |-> "u047B",
    u047C |-> "u047D", u047E |-> "u047F", u0480 |-> "u0481",
    u048A |-> "u048B", u048C |-> "u048D", u048E |-> "u048F",
    u0490 |-> "u0491", u0492 |-> "u0493", u0494 |-> "u0495",
    u0496 |-> "u0497", u0498 |-> "u0499", u049A |-> "u049B",
    u049C |-> "u049D", u049E |-> "u049F", u04A0 |-> "u04A1",
    u04A2 |-> "u04A3", u04A4 |-> "u04A5", u04A6 |-> "u04A7",
    u04A8 |-> "u04A9", u04AA |-> "u04AB", u04AC |-> "u04AD",
    u04AE |-> "u04AF", u04B0 |-> "u04B1", u04B2 |-> "u04B3",
    u04B4 |-> "u04B5", u04B6 |-> "u04B7", u04B8 |-> "u04B9",
    u04BA |-> "u04BB", u04BC |-> "u04BD", u04BE |-> "u04BF",
    u04C0 |-> "u04CF", u04C1 |-> "u04C2", u04C3 |-> "u04C4",
    u04C5 |-> "u04C6", u04C7 |-> "u04C8", u04C9 |-> "u04CA",
    u04CB |-> "u04CC", u04CD |-> "u04CE", u04D0 |-> "u04D1",
    u04D2 |-> "u04D3", u04D4 |-> "u04D5", u04D6 |-> "u04D7",
    u04D8 |-> "u04D9", u04DA |-> "u04DB", u04DC |-> "u04DD",
    u04DE |-> "u04DF", u04E0 |-> "u04E1", u04E2 |-> "u04E3",
    u04E4 |-> "u04E5", u04E6 |-> "u04E7", u04E8 |-> "u04E9",
    u04EA |-> "u04EB", u04EC |-> "u04ED", u04EE |-> "u04EF",
    u04F0 |-> "u04F1", u04F2 |-> "u04F3", u04F4 |-> "u04F5",
    u04F6 |-> "u04F7", u04F8 |-> "u04F9", u04FA |-> "u04FB",
    u04FC |-> "u04FD", u04FE |-> "u04FF", u0500 |-> "u0501",
    u0502 |-> "u0503", u0504 |-> "u0505", u0506 |-> "u0507",
    u0508 |-> "u0509", u050A |-> "u050B", u050C |-> "u050D",
    u050E |-> "u050F", u0510 |-> "u0511", u0512 |-> "u0513",
    u0514 |-> "u0515", u0516 |-> "u0517", u0518 |-> "u0519",
    u051A |-> "u051B", u051C |-> "u051D", u051E |-> "u051F",
    u0520 |-> "u0521", u0522 |-> "u0523", u0524 |-> "u0525",
    u0526 |-> "u0527", u0528 |-> "u0529", u052A |-> "u052B",
    u052C |-> "u052D", u052E |-> "u052F", u0531 |-> "u0561",
    u0532 |-> "u0562", u0533 |-> "u0563", u0534 |-> "u0564",
    u0535 |-> "u0565", u0536 |-> "u0566", u0537 |-> "u0567",
    u0538 |-> "u0568", u0539 |-> "u0569", u053A |-> "u056A",
    u053B |-> "u056B", u053C |-> "u056C", u053D |-> "u056D",
    u053E |-> "u056E", u053F |-> "u056F", u0540 |-> "u0570",
    u0541 |-> "u0571", u0542 |-> "u0572", u0543 |-> "u0573",
    u0544 |-> "u0574", u0545 |-> "u0575", u0546 |-> "u0576",
    u0547 |-> "u0577", u0548 |-> "u0578", u0549 |-> "u0579",
    u054A |-> "u057A", u054B |-> "u057B", u054C |-> "u057C",
    u054D |-> "u057D", u054E |-> "u057E", u054F |-> "u057F",
    u0550 |-> "u0580", u0551 |-> "u0581", u0552 |-> "u0582",
    u0553 |-> "u0583", u0554 |-> "u0584", u0555 |-> "u0585",
    u0556 |-> "u0586", u10A0 |-> "u2D00", u10A1 |-> "u2D01",
    u10A2 |-> "u2D02", u10A3 |-> "u2D03", u10A4 |-> "u2D04",
    u10A5 |-> "u2D05", u10A6 |-> "u2D06", u10A7 |-> "u2D07",
    u10A8 |-> "u2D08", u10A9 |-> "u2D09", u10AA |-> "u2D0A",
    u10AB |-> "u2D0B", u10AC |-> "u2D0C", u10AD |-> "u2D0D",
    u10AE |-> "u2D0E", u10AF |-> "u2D0F", u10B0 |-> "u2D10",
    u10B1 |-> "u2D11", u10B2 |-> "u2D12", u10B3 |-> "u2D13",
    u10B4 |-> "u2D14", u10B5 |-> "u2D15", u10B6 |-> "u2D16",
    u10B7 |-> "u2D17", u10B8 |-> "u2D18", u10B9 |-> "u2D19",
    u10BA |-> "u2D1A", u10BB |-> "u2D1B", u10BC |-> "u2D1C",
    u10BD |-> "u2D1D", u10BE |-> "u2D1E", u10BF |-> "u2D1F",
    u10C0 |-> "u2D20", u10C1 |-> "u2D21", u10C2 |-> "u2D22",
    u10C3 |-> "u2D23", u10C4 |-> "u2D24", u10C5 |-> "u2D25",
    u10C7 |-> "u2D27", u10CD |-> "u2D2D", u13A0 |-> "uAB70",
    u13A1 |-> "uAB71", u13A2 |-> "uAB72", u13A3 |-> "uAB73",
    u13A4 |-> "uAB74", u13A5 |-> "uAB75", u13A6 |-> "uAB76",
    u13A7 |-> "uAB77", u13A8 |-> "uAB78", u13A9 |-> "uAB79",
    u13AA |-> "uAB7A", u13AB |-> "uAB7B", u13AC |-> "uAB7C",
    u13AD |-> "uAB7D", u13AE |-> "uAB7E", u13AF |-> "uAB7F",
    u13B0 |-> "uAB80", u13B1 |-> "uAB81", u13B2 |-> "uAB82",
    u13B3 |-> "uAB83", u13B4 |-> "uAB84", u13B5 |-> "uAB85",
    u13B6 |-> "uAB86", u13B7 |-> "uAB87", u13B8 |-> "uAB88",
    u13B9 |-> "uAB89", u13BA |-> "uAB8A", u13BB |-> "uAB8B",
    u13BC |-> "uAB8C", u13BD |-> "uAB8D", u13BE |-> "uAB8E",
    u13BF |-> "uAB8F", u13C0 |-> "uAB90", u13C1 |-> "uAB91",
    u13C2 |-> "uAB92", u13C3 |-> "uAB93", u13C4 |-> "uAB94",
    u13C5 |-> "uAB95", u13C6 |-> "uAB96", u13C7 |-> "uAB97",
    u13C8 |-> "uAB98", u13C9 |-> "uAB99", u13CA |-> "uAB9A",
    u13CB |-> "uAB9B", u13CC |-> "uAB9C", u13CD |-> "uAB9D",
    u13CE |-> "uAB9E", u13CF |-> "uAB9F", u13D0 |-> "uABA0",
    u13D1 |-> "uABA1", u13D2 |-> "uABA2", u13D3 |-> "uABA3",
    u13D4 |-> "uABA4", u13D5 |-> "uABA5", u13D6 |-> "uABA6",
    u13D7 |-> "uABA7", u13D8 |-> "uABA8", u13D9 |-> "uABA9",
    u13DA |-> "uABAA", u13DB |-> "uABAB", u13DC |-> "uABAC",
    u13DD |-> "uABAD", u13DE |-> "uABAE", u13DF |-> "uABAF",
    u13E0 |-> "uABB0", u13E1 |-> "uABB1", u13E2 |-> "uABB2",
    u13E3 |-> "uABB3", u13E4 |-> "uABB4", u13E5 |-> "uABB5",
    u13E6 |-> "uABB6", u13E7 |-> "uABB7", u13E8 |-> "uABB8",
    u13E9 |-> "uABB9", u13EA |-> "uABBA", u13EB |-> "uABBB",
    u13EC |-> "uABBC", u13ED |-> "uABBD", u13EE |-> "uABBE",
    u13EF |-> "uABBF", u13F0 |-> "u13F8", u13F1 |-> "u13F9",
    u13F2 |-> "u13FA", u13F3 |-> "u13FB", u13F4 |-> "u13FC",
    u13F5 |-> "u13FD", u1C89 |-> "u1C8A", u1C90 |-> "u10D0",
    u1C91 |-> "u10D1", u1C92 |-> "u10D2", u1C93 |-> "u10D3",
    u1C94 |-> "u10D4", u1C95 |-> "u10D5", u1C96 |-> "u10D6",
    u1C97 |-> "u10D7", u1C98 |-> "u10D8", u1C99 |-> "u10D9",
    u1C9A |-> "u10DA", u1C9B |-> "u10DB", u1C9C |-> "u10DC",
    u1C9D |-> "u10DD", u1C9E |-> "u10DE", u1C9F |-> "u10DF",
    u1CA0 |-> "u10E0", u1CA1 |-> "u10E1", u1CA2 |-> "u10E2",
    u1CA3 |-> "u10E3", u1CA4 |-> "u10E4", u1CA5 |-> "u10E5",
    u1CA6 |-> "u10E6", u1CA7 |-> "u10E7", u1CA8 |-> "u10E8",
    u1CA9 |-> "u10E9", u1CAA |-> "u10EA", u1CAB |-> "u10EB",
    u1CAC |-> "u10EC", u1CAD |-> "u10ED", u1CAE |-> "u10EE",
    u1CAF |-> "u10EF", u1CB0 |-> "u10F0", u1CB1 |-> "u10F1",
    u1CB2 |-> "u10F2", u1CB3 |-> "u10F3", u1CB4 |-> "u10F4",
    u1CB5 |-> "u10F5", u1CB6 |-> "u10F6", u1CB7 |-> "u10F7",
    u1CB8 |-> "u10F8", u1CB9 |-> "u10F9", u1CBA |-> "u10FA",
    u1CBD |-> "u10FD", u1CBE |-> "u10FE", u1CBF |-> "u10FF",
    u1E00 |-> "u1E01", u1E02 |-> "u1E03", u1E04 |-> "u1E05",
    u1E06 |-> "u1E07", u1E08 |-> "u1E09", u1E0A |-> "u1E0B",
    u1E0C |-> "u1E0D", u1E0E |-> "u1E0F", u1E10 |-> "u1E11",
    u1E12 |-> "u1E13", u1E14 |-> "u1E15", u1E16 |-> "u1E17",
    u1E18 |-> "u1E19", u1E1A |-> "u1E1B", u1E1C |-> "u1E1D",
    u1E1E |-> "u1E1F", u1E20 |-> "u1E21", u1E22 |-> "u1E23",
    u1E24 |-> "u1E25", u1E26 |-> "u1E27", u1E28 |-> "u1E29",
    u1E2A |-> "u1E2B", u1E2C |-> "u1E2D", u1E2E |-> "u1E2F",
    u1E30 |-> "u1E31", u1E32 |-> "u1E33", u1E34 |-> "u1E35",
    u1E36 |-> "u1E37", u1E38 |-> "u1E39", u1E3A |-> "u1E3B",
    u1E3C |-> "u1E3D", u1E3E |-> "u1E3F", u1E40 |-> "u1E41",
    u1E42 |-> "u1E43", u1E44 |-> "u1E45", u1E46 |-> "u1E47",
    u1E48 |-> "u1E49", u1E4A |-> "u1E4B", u1E4C |-> "u1E4D",
    u1E4E |-> "u1E4F", u1E50 |-> "u1E51", u1E52 |-> "u1E53",
    u1E54 |-> "u1E55", u1E56 |-> "u1E57", u1E58 |-> "u1E59",
    u1E5A |-> "u1E5B", u1E5C |-> "u1E5D", u1E5E |-> "u1E5F",
    u1E60 |-> "u1E61", u1E62 |-> "u1E63", u1E64 |-> "u1E65",
    u1E66 |-> "u1E67", u1E68 |-> "u1E69", u1E6A |-> "u1E6B",
    u1E6C |-> "u1E6D", u1E6E |-> "u1E6F", u1E70 |-> "u1E71",
    u1E72 |-> "u1E73", u1E74 |-> "u1E75", u1E76 |-> "u1E77",
    u1E78 |-> "u1E79", u1E7A |-> "u1E7B", u1E7C |-> "u1E7D",
    u1E7E |-> "u1E7F", u1E80 |-> "u1E81", u1E82 |-> "u1E83",
    u1E84 |-> "u1E85", u1E86 |-> "u1E87", u1E88 |-> "u1E89",
    u1E8A |-> "u1E8B", u1E8C |-> "u1E8D", u1E8E |-> "u1E8F",
    u1E90 |-> "u1E91", u1E92 |-> "u1E93", u1E94 |-> "u1E95",
    u1E9E |-> "u00DF", u1EA0 |-> "u1EA1", u1EA2 |-> "u1EA3",
    u1EA4 |-> "u1EA5", u1EA6 |-> "u1EA7", u1EA8 |-> "u1EA9",
    u1EAA |-> "u1EAB", u1EAC |-> "u1EAD", u1EAE |-> "u1EAF",
    u1EB0 |-> "u1EB1", u1EB2 |-> "u1EB3", u1EB4 |-> "u1EB5",
    u1EB6 |-> "u1EB7", u1EB8 |-> "u1EB9", u1EBA |-> "u1EBB",
    u1EBC |-> "u1EBD", u1EBE |-> "u1EBF", u1EC0 |-> "u1EC1",
    u1EC2 |-> "u1EC3", u1EC4 |-> "u1EC5", u1EC6 |-> "u1EC7",
    u1EC8 |-> "u1EC9", u1ECA |-> "u1ECB", u1ECC |-> "u1ECD",
    u1ECE |-> "u1ECF", u1ED0 |-> "u1ED1", u1ED2 |-> "u1ED3",
    u1ED4 |-> "u1ED5", u1ED6 |-> "u1ED7", u1ED8 |-> "u1ED9",
    u1EDA |-> "u1EDB", u1EDC |-> "u1EDD", u1EDE |-> "u1EDF",
    u1EE0 |-> "u1EE1", u1EE2 |-> "u1EE3", u1EE4 |-> "u1EE5",
    u1EE6 |-> "u1EE7", u1EE8 |-> "u1EE9", u1EEA |-> "u1EEB",
    u1EEC |-> "u1EED", u1EEE |-> "u1EEF", u1EF0 |-> "u1EF1",
    u1EF2 |-> "u1EF3", u1EF4 |-> "u1EF5", u1EF6 |-> "u1EF7",
    u1EF8 |-> "u1EF9", u1EFA |-> "u1EFB", u1EFC |-> "u1EFD",
    u1EFE |-> "u1EFF", u1F08 |-> "u1F00", u1F09 |-> "u1F01",
    u1F0A |-> "u1F02", u1F0B |-> "u1F03", u1F0C |-> "u1F04",
    u1F0D |-> "u1F05", u1F0E |-> "u1F06", u1F0F |-> "u1F07",
    u1F18 |-> "u1F10", u1F19 |-> "u1F11", u1F1A |-> "u1F12",
    u1F1B |-> "u1F13", u1F1C |-> "u1F14", u1F1D |-> "u1F15",
    u1F28 |-> "u1F20", u1F29 |-> "u1F21", u1F2A |-> "u1F22",
    u1F2B |-> "u1F23", u1F2C |-> "u1F24", u1F2D |-> "u1F25",
    u1F2E |-> "u1F26", u1F2F |-> "u1F27", u1F38 |-> "u1F30",
    u1F39 |-> "u1F31", u1F3A |-> "u1F32", u1F3B |-> "u1F33",
    u1F3C |-> "u1F34", u1F3D |-> "u1F35", u1F3E |-> "u1F36",
    u1F3F |-> "u1F37", u1F48 |-> "u1F40", u1F49 |-> "u1F41",
    u1F4A |-> "u1F42", u1F4B |-> "u1F43", u1F4C |-> "u1F44",
    u1F4D |-> "u1F45", u1F59 |-> "u1F51", u1F5B |-> "u1F53",
    u1F5D |-> "u1F55", u1F5F |-> "u1F57", u1F68 |-> "u1F60",
    u1F69 |-> "u1F61", u1F6A |-> "u1F62", u1F6B |-> "u1F63",
    u1F6C |-> "u1F64", u1F6D |-> "u1F65", u1F6E |-> "u1F66",
    u1F6F |-> "u1F67", u1F88 |-> "u1F80", u1F89 |-> "u1F81",
    u1F8A |-> "u1F82", u1F8B |-> "u1F83", u1F8C |-> "u1F84",
    u1F8D |-> "u1F85", u1F8E |-> "u1F86", u1F8F |-> "u1F87",
    u1F98 |-> "u1F90", u1F99 |-> "u1F91", u1F9A |-> "u1F92",
    u1F9B |-> "u1F93", u1F9C |-> "u1F94", u1F9D |-> "u1F95",
    u1F9E |-> "u1F96", u1F9F |-> "u1F97", u1FA8 |-> "u1FA0",
    u1FA9 |-> "u1FA1", u1FAA |-> "u1FA2", u1FAB |-> "u1FA3",
    u1FAC |-> "u1FA4", u1FAD |-> "u1FA5", u1FAE |-> "u1FA6",
    u1FAF |-> "u1FA7", u1FB8 |-> "u1FB0", u1FB9 |-> "u1FB1",
    u1FBA |-> "u1F70", u1FBB |-> "u1F71", u1FBC |-> "u1FB3",
    u1FC8 |-> "u1F72", u1FC9 |-> "u1F73", u1FCA |-> "u1F74",
    u1FCB |-> "u1F75", u1FCC |-> "u1FC3", u1FD8 |-> "u1FD0",
    u1FD9 |-> "u1FD1", u1FDA |-> "u1F76", u1FDB |-> "u1F77",
    u1FE8 |-> "u1FE0", u1FE9 |-> "u1FE1", u1FEA |-> "u1F7A",
    u1FEB |-> "u1F7B", u1FEC |-> "u1FE5", u1FF8 |-> "u1F78",
    u1FF9 |-> "u1F79", u1FFA |-> "u1F7C", u1FFB |-> "u1F7D",
    u1FFC |-> "u1FF3", u2126 |-> "u03C9", u212A |-> "k", u212B |-> "u00E5",
    u2132 |-> "u214E", u2160 |-> "u2170", u2161 |-> "u2171",
    u2162 |-> "u2172", u2163 |-> "u2173", u2164 |-> "u2174",
    u2165 |-> "u2175", u2166 |-> "u2176", u2167 |-> "u2177",
    u2168 |-> "u2178", u2169 |-> "u2179", u216A |-> "u217A",
    u216B |-> "u217B", u216C |-> "u217C", u216D |-> "u217D",
    u216E |-> "u217E", u216F |-> "u217F", u2183 |-> "u2184",
    u24B6 |-> "u24D0", u24B7 |-> "u24D1", u24B8 |-> "u24D2",
    u24B9 |-> "u24D3", u24BA |-> "u24D4", u24BB |-> "u24D5",
    u24BC |-> "u24D6", u24BD |-> "u24D7", u24BE |-> "u24D8",
    u24BF |-> "u24D9", u24C0 |-> "u24DA", u24C1 |-> "u24DB",
    u24C2 |-> "u24DC", u24C3 |-> "u24DD", u24C4 |-> "u24DE",
    u24C5 |-> "u24DF", u24C6 |-> "u24E0", u24C7 |-> "u24E1",
    u24C8 |-> "u24E2", u24C9 |-> "u24E3", u24CA |-> "u24E4",
    u24CB |-> "u24E5", u24CC |-> "u24E6", u24CD |-> "u24E7",
    u24CE |-> "u24E8", u24CF |-> "u24E9", u2C00 |-> "u2C30",
    u2C01 |-> "u2C31", u2C02 |-> "u2C32", u2C03 |-> "u2C33",
    u2C04 |-> "u2C34", u2C05 |-> "u2C35", u2C06 |-> "u2C36",
    u2C07 |-> "u2C37", u2C08 |-> "u2C38", u2C09 |-> "u2C39",
    u2C0A |-> "u2C3A", u2C0B |-> "u2C3B", u2C0C |-> "u2C3C",
    u2C0D |-> "u2C3D", u2C0E |-> "u2C3E", u2C0F |-> "u2C3F",
    u2C10 |-> "u2C40", u2C11 |-> "u2C41", u2C12 |-> "u2C42",
    u2C13 |-> "u2C43", u2C14 |-> "u2C44", u2C15 |-> "u2C45",
    u2C16 |-> "u2C46", u2C17 |-> "u2C47", u2C18 |-> "u2C48",
    u2C19 |-> "u2C49", u2C1A |-> "u2C4A", u2C1B |-> "u2C4B",
    u2C1C |-> "u2C4C", u2C1D |-> "u2C4D", u2C1E |-> "u2C4E",
    u2C1F |-> "u2C4F", u2C20 |-> "u2C50", u2C21 |-> "u2C51",
    u2C22 |-> "u2C52", u2C23 |-> "u2C53", u2C24 |-> "u2C54",
    u2C25 |-> "u2C55", u2C26 |-> "u2C56", u2C27 |-> "u2C57",
    u2C28 |-> "u2C58", u2C29 |-> "u2C59", u2C2A |-> "u2C5A",
    u2C2B |-> "u2C5B", u2C2C |-> "u2C5C", u2C2D |-> "u2C5D",
    u2C2E |-> "u2C5E", u2C2F |-> "u2C5F", u2C60 |-> "u2C61",
    u2C62 |-> "u026B", u2C63 |-> "u1D7D", u2C64 |-> "u027D",
    u2C67 |-> "u2C68", u2C69 |-> "u2C6A", u2C6B |-> "u2C6C",
    u2C6D |-> "u0251", u2C6E |-> "u0271", u2C6F |-> "u0250",
    u2C70 |-> "u0252", u2C72 |-> "u2C73", u2C75 |-> "u2C76",
    u2C7E |-> "u023F", u2C7F |-> "u0240", u2C80 |-> "u2C81",
    u2C82 |-> "u2C83", u2C84 |-> "u2C85", u2C86 |-> "u2C87",
    u2C88 |-> "u2C89", u2C8A |-> "u2C8B", u2C8C |-> "u2C8D",
    u2C8E |-> "u2C8F", u2C90 |-> "u2C91", u2C92 |-> "u2C93",
    u2C94 |-> "u2C95", u2C96 |-> "u2C97", u2C98 |-> "u2C99",
    u2C9A |-> "u2C9B", u2C9C |-> "u2C9D", u2C9E |-> "u2C9F",
    u2CA0 |-> "u2CA1", u2CA2 |-> "u2CA3", u2CA4 |-> "u2CA5",
    u2CA6 |-> "u2CA7", u2CA8 |-> "u2CA9", u2CAA |-> "u2CAB",
    u2CAC |-> "u2CAD", u2CAE |-> "u2CAF", u2CB0 |-> "u2CB1",
    u2CB2 |-> "u2CB3", u2CB4 |-> "u2CB5", u2CB6 |-> "u2CB7",
    u2CB8 |-> "u2CB9", u2CBA |-> "u2CBB", u2CBC |-> "u2CBD",
    u2CBE |-> "u2CBF", u2CC0 |-> "u2CC1", u2CC2 |-> "u2CC3",
    u2CC4 |-> "u2CC5", u2CC6 |-> "u2CC7", u2CC8 |-> "u2CC9",
    u2CCA |-> "u2CCB", u2CCC |-> "u2CCD", u2CCE |-> "u2CCF",
    u2CD0 |-> "u2CD1", u2CD2 |-> "u2CD3", u2CD4 |-> "u2CD5",
    u2CD6 |-> "u2CD7", u2CD8 |-> "u2CD9", u2CDA |-> "u2CDB",
    u2CDC |-> "u2CDD", u2CDE |-> "u2CDF", u2CE0 |-> "u2CE1",
    u2CE2 |-> "u2CE3", u2CEB |-> "u2CEC", u2CED |-> "u2CEE",
    u2CF2 |-> "u2CF3", uA640 |-> "uA641", uA642 |-> "uA643",
    uA644 |-> "uA645", uA646 |-> "uA647", uA648 |-> "uA649",
    uA64A |-> "uA64B", uA64C |-> "uA64D", uA64E |-> "uA64F",
    uA650 |-> "uA651", uA652 |-> "uA653", uA654 |-> "uA655",
    uA656 |-> "uA657", uA658 |-> "uA659", uA65A |-> "uA65B",
    uA65C |-> "uA65D", uA65E |-> "uA65F", uA660 |-> "uA661",
    uA662 |-> "uA663", uA664 |-> "uA665", uA666 |-> "uA667",
    uA668 |-> "uA669", uA66A |-> "uA66B", uA66C |-> "uA66D",
    uA680 |-> "uA681", uA682 |-> "uA683", uA684 |-> "uA685",
    uA686 |-> "uA687", uA688 |-> "uA689", uA68A |-> "uA68B",
    uA68C |-> "uA68D", uA68E |-> "uA68F", uA690 |-> "uA691",
    uA692 |-> "uA693", uA694 |-> "uA695", uA696 |-> "uA697",
    uA698 |-> "uA699", uA69A |-> "uA69B", uA722 |-> "uA723",
    uA724 |-> "uA725", uA726 |-> "uA727", uA728 |-> "uA729",
    uA72A |-> "uA72B", uA72C |-> "uA72D", uA72E |-> "uA72F",
    uA732 |-> "uA733", uA734 |-> "uA735", uA736 |-> "uA737",
    uA738 |-> "uA739", uA73A |-> "uA73B", uA73C |-> "uA73D",
    uA73E |-> "uA73F", uA740 |-> "uA741", uA742 |-> "uA743",
    uA744 |-> "uA745", uA746 |-> "uA747", uA748 |-> "uA749",
    uA74A |-> "uA74B", uA74C |-> "uA74D", uA74E |-> "uA74F",
    uA750 |-> "uA751", uA752 |-> "uA753", uA754 |-> "uA755",
    uA756 |-> "uA757", uA758 |-> "uA759", uA75A |-> "uA75B",
    uA75C |-> "uA75D", uA75E |-> "uA75F", uA760 |-> "uA761",
    uA762 |-> "uA763", uA764 |-> "uA765", uA766 |-> "uA767",
    uA768 |-> "uA769", uA76A |-> "uA76B", uA76C |-> "uA76D",
    uA76E |-> "uA76F", uA779 |-> "uA77A", uA77B |-> "uA77C",
    uA77D |-> "u1D79", uA77E |-> "uA77F", uA780 |-> "uA781",
    uA782 |-> "uA783", uA784 |-> "uA785", uA786 |-> "uA787",
    uA78B |-> "uA78C", uA78D |-> "u0265", uA790 |-> "uA791",
    uA792 |-> "uA793", uA796 |-> "uA797", uA798 |-> "uA799",
    uA79A |-> "uA79B", uA79C |-> "uA79D", uA79E |-> "uA79F",
    uA7A0 |-> "uA7A1", uA7A2 |-> "uA7A3", uA7A4 |-> "uA7A5",
    uA7A6 |-> "uA7A7", uA7A8 |-> "uA7A9", uA7AA |-> "u0266",
    uA7AB |-> "u025C", uA7AC |-> "u0261", uA7AD |-> "u026C",
    uA7AE |-> "u026A", uA7B0 |-> "u029E", uA7B1 |-> "u0287",
    uA7B2 |-> "u029D", uA7B3 |-> "uAB53", uA7B4 |-> "uA7B5",
    uA7B6 |-> "uA7B7", uA7B8 |-> "uA7B9", uA7BA |-> "uA7BB",
    uA7BC |-> "uA7BD", uA7BE |-> "uA7BF", uA7C0 |-> "uA7C1",
    uA7C2 |-> "uA7C3", uA7C4 |-> "uA794", uA7C5 |-> "u0282",
    uA7C6 |-> "u1D8E", uA7C7 |-> "uA7C8", uA7C9 |-> "uA7CA",
    uA7CB |-> "u0264", uA7CC |-> "uA7CD", uA7CE |-> "uA7CF",
    uA7D0 |-> "uA7D1", uA7D2 |-> "uA7D3", uA7D4 |-> "uA7D5",
    uA7D6 |-> "uA7D7", uA7D8 |-> "uA7D9", uA7DA |-> "uA7DB",
    uA7DC |-> "u019B", uA7F5 |-> "uA7F6", uFF21 |-> "uFF41",
    uFF22 |-> "uFF42", uFF23 |-> "uFF43", uFF24 |-> "uFF44",
    uFF25 |-> "uFF45", uFF26 |-> "uFF46", uFF27 |-> "uFF47",
    uFF28 |-> "uFF48", uFF29 |-> "uFF49", uFF2A |-> "uFF4A",
    uFF2B |-> "uFF4B", uFF2C |-> "uFF4C", uFF2D |-> "uFF4D",
    uFF2E |-> "uFF4E", uFF2F |-> "uFF4F", uFF30 |-> "uFF50",
    uFF31 |-> "uFF51", uFF32 |-> "uFF52", uFF33 |-> "uFF53",
    uFF34 |-> "uFF54", uFF35 |-> "uFF55", uFF36 |-> "uFF56",
    uFF37 |-> "uFF57", uFF38 |-> "uFF58", uFF39 |-> "uFF59",
    uFF3A |-> "uFF5A" ]

\* the same for the characters written as a surrogate pair: the lead
\* surrogate stays, the trail surrogate is mapped
LowerOfAstral ==
  [
    uD801 |->
      [
        uDC00 |-> "uDC28", uDC01 |-> "uDC29", uDC02 |-> "uDC2A",
        uDC03 |-> "uDC2B", uDC04 |-> "uDC2C", uDC05 |-> "uDC2D",
        uDC06 |-> "uDC2E", uDC07 |-> "uDC2F", uDC08 |-> "uDC30",
        uDC09 |-> "uDC31", uDC0A |-> "uDC32", uDC0B |-> "uDC33",
        uDC0C |-> "uDC34", uDC0D |-> "uDC35", uDC0E |-> "uDC36",
        uDC0F |-> "uDC37", uDC10 |-> "uDC38", uDC11 |-> "uDC39",
        uDC12 |-> "uDC3A", uDC13 |-> "uDC3B", uDC14 |-> "uDC3C",
        uDC15 |-> "uDC3D", uDC16 |-> "uDC3E", uDC17 |-> "uDC3F",
        uDC18 |-> "uDC40", uDC19 |-> "uDC41", uDC1A |-> "uDC42",
        uDC1B |-> "uDC43", uDC1C |-> "uDC44", uDC1D |-> "uDC45",
        uDC1E |-> "uDC46", uDC1F |-> "uDC47", uDC20 |-> "uDC48",
        uDC21 |-> "uDC49", uDC22 |-> "uDC4A", uDC23 |-> "uDC4B",
        uDC24 |-> "uDC4C", uDC25 |-> "uDC4D", uDC26 |-> "uDC4E",
        uDC27 |-> "uDC4F", uDCB0 |-> "uDCD8", uDCB1 |-> "uDCD9",
        uDCB2 |-> "uDCDA", uDCB3 |-> "uDCDB", uDCB4 |-> "uDCDC",
        uDCB5 |-> "uDCDD", uDCB6 |-> "uDCDE", uDCB7 |-> "uDCDF",
        uDCB8 |-> "uDCE0", uDCB9 |-> "uDCE1", uDCBA |-> "uDCE2",
        uDCBB |-> "uDCE3", uDCBC |-> "uDCE4", uDCBD |-> "uDCE5",
        uDCBE |-> "uDCE6", uDCBF |-> "uDCE7", uDCC0 |-> "uDCE8",
        uDCC1 |-> "uDCE9", uDCC2 |-> "uDCEA", uDCC3 |-> "uDCEB",
        uDCC4 |-> "uDCEC", uDCC5 |-> "uDCED", uDCC6 |-> "uDCEE",
        uDCC7 |-> "uDCEF", uDCC8 |-> "uDCF0", uDCC9 |-> "uDCF1",
        uDCCA |-> "uDCF2", uDCCB |-> "uDCF3", uDCCC |-> "uDCF4",
        uDCCD |-> "uDCF5", uDCCE |-> "uDCF6", uDCCF |-> "uDCF7",
        uDCD0 |-> "uDCF8", uDCD1 |-> "uDCF9", uDCD2 |-> "uDCFA",
        uDCD3 |-> "uDCFB", uDD70 |-> "uDD97", uDD71 |-> "uDD98",
        uDD72 |-> "uDD99", uDD73 |-> "uDD9A", uDD74 |-> "uDD9B",
        uDD75 |-> "uDD9C", uDD76 |-> "uDD9D", uDD77 |-> "uDD9E",
        uDD78 |-> "uDD9F", uDD79 |-> "uDDA0", uDD7A |-> "uDDA1",
        uDD7C |-> "uDDA3", uDD7D |-> "uDDA4", uDD7E |-> "uDDA5",
        uDD7F |-> "uDDA6", uDD80 |-> "uDDA7", uDD81 |-> "uDDA8",
        uDD82 |-> "uDDA9", uDD83 |-> "uDDAA", uDD84 |-> "uDDAB",
        uDD85 |-> "uDDAC", uDD86 |-> "uDDAD", uDD87 |-> "uDDAE",
        uDD88 |-> "uDDAF", uDD89 |-> "uDDB0", uDD8A |-> "uDDB1",
        uDD8C |-> "uDDB3", uDD8D |-> "uDDB4", uDD8E |-> "uDDB5",
        uDD8F |-> "uDDB6", uDD90 |-> "uDDB7", uDD91 |-> "uDDB8",
        uDD92 |-> "uDDB9", uDD94 |-> "uDDBB", uDD95 |-> "uDDBC" ],
    uD803 |->
      [
        uDC80 |-> "uDCC0", uDC81 |-> "uDCC1", uDC82 |-> "uDCC2",
        uDC83 |-> "uDCC3", uDC84 |-> "uDCC4", uDC85 |-> "uDCC5",
        uDC86 |-> "uDCC6", uDC87 |-> "uDCC7", uDC88 |-> "uDCC8",
        uDC89 |-> "uDCC9", uDC8A |-> "uDCCA", uDC8B |-> "uDCCB",
        uDC8C |-> "uDCCC", uDC8D |-> "uDCCD", uDC8E |-> "uDCCE",
        uDC8F |-> "uDCCF", uDC90 |-> "uDCD0", uDC91 |-> "uDCD1",
        uDC92 |-> "uDCD2", uDC93 |-> "uDCD3", uDC94 |-> "uDCD4",
        uDC95 |-> "uDCD5", uDC96 |-> "uDCD6", uDC97 |-> "uDCD7",
        uDC98 |-> "uDCD8", uDC99 |-> "uDCD9", uDC9A |-> "uDCDA",
        uDC9B |-> "uDCDB", uDC9C |-> "uDCDC", uDC9D |-> "uDCDD",
        uDC9E |-> "uDCDE", uDC9F |-> "uDCDF", uDCA0 |-> "uDCE0",
        uDCA1 |-> "uDCE1", uDCA2 |-> "uDCE2", uDCA3 |-> "uDCE3",
        uDCA4 |-> "uDCE4", uDCA5 |-> "uDCE5", uDCA6 |-> "uDCE6",
        uDCA7 |-> "uDCE7", uDCA8 |-> "uDCE8", uDCA9 |-> "uDCE9",
        uDCAA |-> "uDCEA", uDCAB |-> "uDCEB", uDCAC |-> "uDCEC",
        uDCAD |-> "uDCED", uDCAE |-> "uDCEE", uDCAF |-> "uDCEF",
        uDCB0 |-> "uDCF0", uDCB1 |-> "uDCF1", uDCB2 |-> "uDCF2",
        uDD50 |-> "uDD70", uDD51 |-> "uDD71", uDD52 |-> "uDD72",
        uDD53 |-> "uDD73", uDD54 |-> "uDD74", uDD55 |-> "uDD75",
        uDD56 |-> "uDD76", uDD57 |-> "uDD77", uDD58 |-> "uDD78",
        uDD59 |-> "uDD79", uDD5A |-> "uDD7A", uDD5B |-> "uDD7B",
        uDD5C |-> "uDD7C", uDD5D |-> "uDD7D", uDD5E |-> "uDD7E",
        uDD5F |-> "uDD7F", uDD60 |-> "uDD80", uDD61 |-> "uDD81",
        uDD62 |-> "uDD82", uDD63 |-> "uDD83", uDD64 |-> "uDD84",
        uDD65 |-> "uDD85" ],
    uD806 |->
      [
        uDCA0 |-> "uDCC0", uDCA1 |-> "uDCC1", uDCA2 |-> "uDCC2",
        uDCA3 |-> "uDCC3", uDCA4 |-> "uDCC4", uDCA5 |-> "uDCC5",
        uDCA6 |-> "uDCC6", uDCA7 |-> "uDCC7", uDCA8 |-> "uDCC8",
        uDCA9 |-> "uDCC9", uDCAA |-> "uDCCA", uDCAB |-> "uDCCB",
        uDCAC |-> "uDCCC", uDCAD |-> "uDCCD", uDCAE |-> "uDCCE",
        uDCAF |-> "uDCCF", uDCB0 |-> "uDCD0", uDCB1 |-> "uDCD1",
        uDCB2 |-> "uDCD2", uDCB3 |-> "uDCD3", uDCB4 |-> "uDCD4",
        uDCB5 |-> "uDCD5", uDCB6 |-> "uDCD6", uDCB7 |-> "uDCD7",
        uDCB8 |-> "uDCD8", uDCB9 |-> "uDCD9", uDCBA |-> "uDCDA",
        uDCBB |-> "uDCDB", uDCBC |-> "uDCDC", uDCBD |-> "uDCDD",
        uDCBE |-> "uDCDE", uDCBF |-> "uDCDF" ],
    uD81B |->
      [
        uDE40 |-> "uDE60", uDE41 |-> "uDE61", uDE42 |-> "uDE62",
        uDE43 |-> "uDE63", uDE44 |-> "uDE64", uDE45 |-> "uDE65",
        uDE46 |-> "uDE66", uDE47 |-> "uDE67", uDE48 |-> "uDE68",
        uDE49 |-> "uDE69", uDE4A |-> "uDE6A", uDE4B |-> "uDE6B",
        uDE4C |-> "uDE6C", uDE4D |-> "uDE6D", uDE4E |-> "uDE6E",
        uDE4F |-> "uDE6F", uDE50 |-> "uDE70", uDE51 |-> "uDE71",
        uDE52 |-> "uDE72", uDE53 |-> "uDE73", uDE54 |-> "uDE74",
        uDE55 |-> "uDE75", uDE56 |-> "uDE76", uDE57 |-> "uDE77",
        uDE58 |-> "uDE78", uDE59 |-> "uDE79", uDE5A |-> "uDE7A",
        uDE5B |-> "uDE7B", uDE5C |-> "uDE7C", uDE5D |-> "uDE7D",
        uDE5E |-> "uDE7E", uDE5F |-> "uDE7F", uDEA0 |-> "uDEBB",
        uDEA1 |-> "uDEBC", uDEA2 |-> "uDEBD", uDEA3 |-> "uDEBE",
        uDEA4 |-> "uDEBF", uDEA5 |-> "uDEC0", uDEA6 |-> "uDEC1",
        uDEA7 |-> "uDEC2", uDEA8 |-> "uDEC3", uDEA9 |-> "uDEC4",
        uDEAA |-> "uDEC5", uDEAB |-> "uDEC6", uDEAC |-> "uDEC7",
        uDEAD |-> "uDEC8", uDEAE |-> "uDEC9", uDEAF |-> "uDECA",
        uDEB0 |-> "uDECB", uDEB1 |-> "uDECC", uDEB2 |-> "uDECD",
        uDEB3 |-> "uDECE", uDEB4 |-> "uDECF", uDEB5 |-> "uDED0",
        uDEB6 |-> "uDED1", uDEB7 |-> "uDED2", uDEB8 |-> "uDED3" ],
    uD83A |->
      [
        uDD00 |-> "uDD22", uDD01 |-> "uDD23", uDD02 |-> "uDD24",
        uDD03 |-> "uDD25", uDD04 |-> "uDD26", uDD05 |-> "uDD27",
        uDD06 |-> "uDD28", uDD07 |-> "uDD29", uDD08 |-> "uDD2A",
        uDD09 |-> "uDD2B", uDD0A |-> "uDD2C", uDD0B |-> "uDD2D",
        uDD0C |-> "uDD2E", uDD0D |-> "uDD2F", uDD0E |-> "uDD30",
        uDD0F |-> "uDD31", uDD10 |-> "uDD32", uDD11 |-> "uDD33",
        uDD12 |-> "uDD34", uDD13 |-> "uDD35", uDD14 |-> "uDD36",
        uDD15 |-> "uDD37", uDD16 |-> "uDD38", uDD17 |-> "uDD39",
        uDD18 |-> "uDD3A", uDD19 |-> "uDD3B", uDD1A |-> "uDD3C",
        uDD1B |-> "uDD3D", uDD1C |-> "uDD3E", uDD1D |-> "uDD3F",
        uDD1E |-> "uDD40", uDD1F |-> "uDD41", uDD20 |-> "uDD42",
        uDD21 |-> "uDD43" ] ]

\* the case-ignorable characters (Unicode Case_Ignorable) of one code unit
CaseIgnorableBMP ==
  {
    "'", ".", ":", "^", "u0060", "u00A8", "u00AD", "u00AF", "u00B4", "u00B7",
    "u00B8", "u02B0", "u02B1", "u02B2", "u02B3", "u02B4", "u02B5", "u02B6",
    "u02B7", "u02B8", "u02B9", "u02BA", "u02BB", "u02BC", "u02BD", "u02BE",
    "u02BF", "u02C0", "u02C1", "u02C2", "u02C3", "u02C4", "u02C5", "u02C6",
    "u02C7", "u02C8", "u02C9", "u02CA", "u02CB", "u02CC", "u02CD", "u02CE",
    "u02CF", "u02D0", "u02D1", "u02D2", "u02D3", "u02D4", "u02D5", "u02D6",
    "u02D7", "u02D8", "u02D9", "u02DA", "u02DB", "u02DC", "u02DD", "u02DE",
    "u02DF", "u02E0", "u02E1", "u02E2", "u02E3", "u02E4", "u02E5", "u02E6",
    "u02E7", "u02E8", "u02E9", "u02EA", "u02EB", "u02EC", "u02ED", "u02EE",
    "u02EF", "u02F0", "u02F1", "u02F2", "u02F3", "u02F4", "u02F5", "u02F6",
    "u02F7", "u02F8", "u02F9", "u02FA", "u02FB", "u02FC", "u02FD", "u02FE",
    "u02FF", "u0300", "u0301", "u0302", "u0303", "u0304", "u0305", "u0306",
    "u0307", "u0308", "u0309", "u030A", "u030B", "u030C", "u030D", "u030E",
    "u030F", "u0310", "u0311", "u0312", "u0313", "u0314", "u0315", "u0316",
    "u0317", "u0318", "u0319", "u031A", "u031B", "u031C", "u031D", "u031E",
    "u031F", "u0320", "u0321", "u0322", "u0323", "u0324", "u0325", "u0326",
    "u0327", "u0328", "u0329", "u032A", "u032B", "u032C", "u032D", "u032E",
    "u032F", "u0330", "u0331", "u0332", "u0333", "u0334", "u0335", "u0336",
    "u0337", "u0338", "u0339", "u033A", "u033B", "u033C", "u033D", "u033E",
    "u033F", "u0340", "u0341", "u0342", "u0343", "u0344", "u0345", "u0346",
    "u0347", "u0348", "u0349", "u034A", "u034B", "u034C", "u034D", "u034E",
    "u034F", "u0350", "u0351", "u0352", "u0353", "u0354", "u0355", "u0356",
    "u0357", "u0358", "u0359", "u035A", "u035B", "u035C", "u035D", "u035E",
    "u035F", "u0360", "u0361", "u0362", "u0363", "u0364", "u0365", "u0366",
    "u0367", "u0368", "u0369", "u036A", "u036B", "u036C", "u036D", "u036E",
    "u036F", "u0374", "u0375", "u037A", "u0384", "u0385", "u0387", "u0483",
    "u0484", "u0485", "u0486", "u0487", "u0488", "u0489", "u0559", "u055F",
    "u0591", "u0592", "u0593", "u0594", "u0595", "u0596", "u0597", "u0598",
    "u0599", "u059A", "u059B", "u059C", "u059D", "u059E", "u059F", "u05A0",
    "u05A1", "u05A2", "u05A3", "u05A4", "u05A5", "u05A6", "u05A7", "u05A8",
    "u05A9", "u05AA", "u05AB", "u05AC", "u05AD", "u05AE", "u05AF", "u05B0",
    "u05B1", "u05B2", "u05B3", "u05B4", "u05B5", "u05B6", "u05B7", "u05B8",
    "u05B9", "u05BA", "u05BB", "u05BC", "u05BD", "u05BF", "u05C1", "u05C2",
    "u05C4", "u05C5", "u05C7", "u05F4", "u0600", "u0601", "u0602", "u0603",
    "u0604", "u0605", "u0610", "u0611", "u0612", "u0613", "u0614", "u0615",
    "u0616", "u0617", "u0618", "u0619", "u061A", "u061C", "u0640", "u064B",
    "u064C", "u064D", "u064E", "u064F", "u0650", "u0651", "u0652", "u0653",
    "u0654", "u0655", "u0656", "u0657", "u0658", "u0659", "u065A", "u065B",
    "u065C", "u065D", "u065E", "u065F", "u0670", "u06D6", "u06D7", "u06D8",
    "u06D9", "u06DA", "u06DB", "u06DC", "u06DD", "u06DF", "u06E0", "u06E1",
    "u06E2", "u06E3", "u06E4", "u06E5", "u06E6", "u06E7", "u06E8", "u06EA",
    "u06EB", "u06EC", "u06ED", "u070F", "u0711", "u0730", "u0731", "u0732",
    "u0733", "u0734", "u0735", "u0736", "u0737", "u0738", "u0739", "u073A",
    "u073B", "u073C", "u073D", "u073E", "u073F", "u0740", "u0741", "u0742",
    "u0743", "u0744", "u0745", "u0746", "u0747", "u0748", "u0749", "u074A",
    "u07A6", "u07A7", "u07A8", "u07A9", "u07AA", "u07AB", "u07AC", "u07AD",
    "u07AE", "u07AF", "u07B0", "u07EB", "u07EC", "u07ED", "u07EE", "u07EF",
    "u07F0", "u07F1", "u07F2", "u07F3", "u07F4", "u07F5", "u07FA", "u07FD",
    "u0816", "u0817", "u0818", "u0819", "u081A", "u081B", "u081C", "u081D",
    "u081E", "u081F", "u0820", "u0821", "u0822", "u0823", "u0824", "u0825",
    "u0826", "u0827", "u0828", "u0829", "u082A", "u082B", "u082C", "u082D",
    "u0859", "u085A", "u085B", "u0888", "u0890", "u0891", "u0897", "u0898",
    "u0899", "u089A", "u089B", "u089C", "u089D", "u089E", "u089F", "u08C9",
    "u08CA", "u08CB", "u08CC", "u08CD", "u08CE", "u08CF", "u08D0", "u08D1",
    "u08D2", "u08D3", "u08D4", "u08D5", "u08D6", "u08D7", "u08D8", "u08D9",
    "u08DA", "u08DB", "u08DC", "u08DD", "u08DE", "u08DF", "u08E0", "u08E1",
    "u08E2", "u08E3", "u08E4", "u08E5", "u08E6", "u08E7", "u08E8", "u08E9",
    "u08EA", "u08EB", "u08EC", "u08ED", "u08EE", "u08EF", "u08F0", "u08F1",
    "u08F2", "u08F3", "u08F4", "u08F5", "u08F6", "u08F7", "u08F8", "u08F9",
    "u08FA", "u08FB", "u08FC", "u08FD", "u08FE", "u08FF", "u0900", "u0901",
    "u0902", "u093A", "u093C", "u0941", "u0942", "u0943", "u0944", "u0945",
    "u0946", "u0947", "u0948", "u094D", "u0951", "u0952", "u0953", "u0954",
    "u0955", "u0956", "u0957", "u0962", "u0963", "u0971", "u0981", "u09BC",
    "u09C1", "u09C2", "u09C3", "u09C4", "u09CD", "u09E2", "u09E3", "u09FE",
    "u0A01", "u0A02", "u0A3C", "u0A41", "u0A42", "u0A47", "u0A48", "u0A4B",
    "u0A4C", "u0A4D", "u0A51", "u0A70", "u0A71", "u0A75", "u0A81", "u0A82",
    "u0ABC", "u0AC1", "u0AC2", "u0AC3", "u0AC4", "u0AC5", "u0AC7", "u0AC8",
    "u0ACD", "u0AE2", "u0AE3", "u0AFA", "u0AFB", "u0AFC", "u0AFD", "u0AFE",
    "u0AFF", "u0B01", "u0B3C", "u0B3F", "u0B41", "u0B42", "u0B43", "u0B44",
    "u0B4D", "u0B55", "u0B56", "u0B62", "u0B63", "u0B82", "u0BC0", "u0BCD",
    "u0C00", "u0C04", "u0C3C", "u0C3E", "u0C3F", "u0C40", "u0C46", "u0C47",
    "u0C48", "u0C4A", "u0C4B", "u0C4C", "u0C4D", "u0C55", "u0C56", "u0C62",
    "u0C63", "u0C81", "u0CBC", "u0CBF", "u0CC6", "u0CCC", "u0CCD", "u0CE2",
    "u0CE3", "u0D00", "u0D01", "u0D3B", "u0D3C", "u0D41", "u0D42", "u0D43",
    "u0D44", "u0D4D", "u0D62", "u0D63", "u0D81", "u0DCA", "u0DD2", "u0DD3",
    "u0DD4", "u0DD6", "u0E31", "u0E34", "u0E35", "u0E36", "u0E37", "u0E38",
    "u0E39", "u0E3A", "u0E46", "u0E47", "u0E48", "u0E49", "u0E4A", "u0E4B",
    "u0E4C", "u0E4D", "u0E4E", "u0EB1", "u0EB4", "u0EB5", "u0EB6", "u0EB7",
    "u0EB8", "u0EB9", "u0EBA", "u0EBB", "u0EBC", "u0EC6", "u0EC8", "u0EC9",
    "u0ECA", "u0ECB", "u0ECC", "u0ECD", "u0ECE", "u0F18", "u0F19", "u0F35",
    "u0F37", "u0F39", "u0F71", "u0F72", "u0F73", "u0F74", "u0F75", "u0F76",
    "u0F77", "u0F78", "u0F79", "u0F7A", "u0F7B", "u0F7C", "u0F7D", "u0F7E",
    "u0F80", "u0F81", "u0F82", "u0F83", "u0F84", "u0F86", "u0F87", "u0F8D",
    "u0F8E", "u0F8F", "u0F90", "u0F91", "u0F92", "u0F93", "u0F94", "u0F95",
    "u0F96", "u0F97", "u0F99", "u0F9A", "u0F9B", "u0F9C", "u0F9D", "u0F9E",
    "u0F9F", "u0FA0", "u0FA1", "u0FA2", "u0FA3", "u0FA4", "u0FA5", "u0FA6",
    "u0FA7", "u0FA8", "u0FA9", "u0FAA", "u0FAB", "u0FAC", "u0FAD", "u0FAE",
    "u0FAF", "u0FB0", "u0FB1", "u0FB2", "u0FB3", "u0FB4", "u0FB5", "u0FB6",
    "u0FB7", "u0FB8", "u0FB9", "u0FBA", "u0FBB", "u0FBC", "u0FC6", "u102D",
    "u102E", "u102F", "u1030", "u1032", "u1033", "u1034", "u1035", "u1036",
    "u1037", "u1039", "u103A", "u103D", "u103E", "u1058", "u1059", "u105E",
    "u105F", "u1060", "u1071", "u1072", "u1073", "u1074", "u1082", "u1085",
    "u1086", "u108D", "u109D", "u10FC", "u135D", "u135E", "u135F", "u1712",
    "u1713", "u1714", "u1732", "u1733", "u1752", "u1753", "u1772", "u1773",
    "u17B4", "u17B5", "u17B7", "u17B8", "u17B9", "u17BA", "u17BB", "u17BC",
    "u17BD", "u17C6", "u17C9", "u17CA", "u17CB", "u17CC", "u17CD", "u17CE",
    "u17CF", "u17D0", "u17D1", "u17D2", "u17D3", "u17D7", "u17DD", "u180B",
    "u180C", "u180D", "u180E", "u180F", "u1843", "u1885", "u1886", "u18A9",
    "u1920", "u1921", "u1922", "u1927", "u1928", "u1932", "u1939", "u193A",
    "u193B", "u1A17", "u1A18", "u1A1B", "u1A56", "u1A58", "u1A59", "u1A5A",
    "u1A5B", "u1A5C", "u1A5D", "u1A5E", "u1A60", "u1A62", "u1A65", "u1A66",
    "u1A67", "u1A68", "u1A69", "u1A6A", "u1A6B", "u1A6C", "u1A73", "u1A74",
    "u1A75", "u1A76", "u1A77", "u1A78", "u1A79", "u1A7A", "u1A7B", "u1A7C",
    "u1A7F", "u1AA7", "u1AB0", "u1AB1", "u1AB2", "u1AB3", "u1AB4", "u1AB5",
    "u1AB6", "u1AB7", "u1AB8", "u1AB9", "u1ABA", "u1ABB", "u1ABC", "u1ABD",
    "u1ABE", "u1ABF", "u1AC0", "u1AC1", "u1AC2", "u1AC3", "u1AC4", "u1AC5",
    "u1AC6", "u1AC7", "u1AC8", "u1AC9", "u1ACA", "u1ACB", "u1ACC", "u1ACD",
    "u1ACE", "u1ACF", "u1AD0", "u1AD1", "u1AD2", "u1AD3", "u1AD4", "u1AD5",
    "u1AD6", "u1AD7", "u1AD8", "u1AD9", "u1ADA", "u1ADB", "u1ADC", "u1ADD",
    "u1AE0", "u1AE1", "u1AE2", "u1AE3", "u1AE4", "u1AE5", "u1AE6", "u1AE7",
    "u1AE8", "u1AE9", "u1AEA", "u1AEB", "u1B00", "u1B01", "u1B02", "u1B03",
    "u1B34", "u1B36", "u1B37", "u1B38", "u1B39", "u1B3A", "u1B3C", "u1B42",
    "u1B6B", "u1B6C", "u1B6D", "u1B6E", "u1B6F", "u1B70", "u1B71", "u1B72",
    "u1B73", "u1B80", "u1B81", "u1BA2", "u1BA3", "u1BA4", "u1BA5", "u1BA8",
    "u1BA9", "u1BAB", "u1BAC", "u1BAD", "u1BE6", "u1BE8", "u1BE9", "u1BED",
    "u1BEF", "u1BF0", "u1BF1", "u1C2C", "u1C2D", "u1C2E", "u1C2F", "u1C30",
    "u1C31", "u1C32", "u1C33", "u1C36", "u1C37", "u1C78", "u1C79", "u1C7A",
    "u1C7B", "u1C7C", "u1C7D", "u1CD0", "u1CD1", "u1CD2", "u1CD4", "u1CD5",
    "u1CD6", "u1CD7", "u1CD8", "u1CD9", "u1CDA", "u1CDB", "u1CDC", "u1CDD",
    "u1CDE", "u1CDF", "u1CE0", "u1CE2", "u1CE3", "u1CE4", "u1CE5", "u1CE6",
    "u1CE7", "u1CE8", "u1CED", "u1CF4", "u1CF8", "u1CF9", "u1D2C", "u1D2D",
    "u1D2E", "u1D2F", "u1D30", "u1D31", "u1D32", "u1D33", "u1D34", "u1D35",
    "u1D36", "u1D37", "u1D38", "u1D39", "u1D3A", "u1D3B", "u1D3C", "u1D3D",
    "u1D3E", "u1D3F", "u1D40", "u1D41", "u1D42", "u1D43", "u1D44", "u1D45",
    "u1D46", "u1D47", "u1D48", "u1D49", "u1D4A", "u1D4B", "u1D4C", "u1D4D",
    "u1D4E", "u1D4F", "u1D50", "u1D51", "u1D52", "u1D53", "u1D54", "u1D55",
    "u1D56", "u1D57", "u1D58", "u1D59", "u1D5A", "u1D5B", "u1D5C", "u1D5D",
    "u1D5E", "u1D5F", "u1D60", "u1D61", "u1D62", "u1D63", "u1D64", "u1D65",
    "u1D66", "u1D67", "u1D68", "u1D69", "u1D6A", "u1D78", "u1D9B", "u1D9C",
    "u1D9D", "u1D9E", "u1D9F", "u1DA0", "u1DA1", "u1DA2", "u1DA3", "u1DA4",
    "u1DA5", "u1DA6", "u1DA7", "u1DA8", "u1DA9", "u1DAA", "u1DAB", "u1DAC",
    "u1DAD", "u1DAE", "u1DAF", "u1DB0", "u1DB1", "u1DB2", "u1DB3", "u1DB4",
    "u1DB5", "u1DB6", "u1DB7", "u1DB8", "u1DB9", "u1DBA", "u1DBB", "u1DBC",
    "u1DBD", "u1DBE", "u1DBF", "u1DC0", "u1DC1", "u1DC2", "u1DC3", "u1DC4",
    "u1DC5", "u1DC6", "u1DC7", "u1DC8", "u1DC9", "u1DCA", "u1DCB", "u1DCC",
    "u1DCD", "u1DCE", "u1DCF", "u1DD0", "u1DD1", "u1DD2", "u1DD3", "u1DD4",
    "u1DD5", "u1DD6", "u1DD7", "u1DD8", "u1DD9", "u1DDA", "u1DDB", "u1DDC",
    "u1DDD", "u1DDE", "u1DDF", "u1DE0", "u1DE1", "u1DE2", "u1DE3", "u1DE4",
    "u1DE5", "u1DE6", "u1DE7", "u1DE8", "u1DE9", "u1DEA", "u1DEB", "u1DEC",
    "u1DED", "u1DEE", "u1DEF", "u1DF0", "u1DF1", "u1DF2", "u1DF3", "u1DF4",
    "u1DF5", "u1DF6", "u1DF7", "u1DF8", "u1DF9", "u1DFA", "u1DFB", "u1DFC",
    "u1DFD", "u1DFE", "u1DFF", "u1FBD", "u1FBF", "u1FC0", "u1FC1", "u1FCD",
    "u1FCE", "u1FCF", "u1FDD", "u1FDE", "u1FDF", "u1FED", "u1FEE", "u1FEF",
    "u1FFD", "u1FFE", "u200B", "u200C", "u200D", "u200E", "u200F", "u2018",
    "u2019", "u2024", "u2027", "u202A", "u202B", "u202C", "u202D", "u202E",
    "u2060", "u2061", "u2062", "u2063", "u2064", "u2066", "u2067", "u2068",
    "u2069", "u206A", "u206B", "u206C", "u206D", "u206E", "u206F", "u2071",
    "u207F", "u2090", "u2091", "u2092", "u2093", "u2094", "u2095", "u2096",
    "u2097", "u2098", "u2099", "u209A", "u209B", "u209C", "u20D0", "u20D1",
    "u20D2", "u20D3", "u20D4", "u20D5", "u20D6", "u20D7", "u20D8", "u20D9",
    "u20DA", "u20DB", "u20DC", "u20DD", "u20DE", "u20DF", "u20E0", "u20E1",
    "u20E2", "u20E3", "u20E4", "u20E5", "u20E6", "u20E7", "u20E8", "u20E9",
    "u20EA", "u20EB", "u20EC", "u20ED", "u20EE", "u20EF", "u20F0", "u2C7C",
    "u2C7D", "u2CEF", "u2CF0", "u2CF1", "u2D6F", "u2D7F", "u2DE0", "u2DE1",
    "u2DE2", "u2DE3", "u2DE4", "u2DE5", "u2DE6", "u2DE7", "u2DE8", "u2DE9",
    "u2DEA", "u2DEB", "u2DEC", "u2DED", "u2DEE", "u2DEF", "u2DF0", "u2DF1",
    "u2DF2", "u2DF3", "u2DF4", "u2DF5", "u2DF6", "u2DF7", "u2DF8", "u2DF9",
    "u2DFA", "u2DFB", "u2DFC", "u2DFD", "u2DFE", "u2DFF", "u2E2F", "u3005",
    "u302A", "u302B", "u302C", "u302D", "u3031", "u3032", "u3033", "u3034",
    "u3035", "u303B", "u3099", "u309A", "u309B", "u309C", "u309D", "u309E",
    "u30FC", "u30FD", "u30FE", "uA015", "uA4F8", "uA4F9", "uA4FA", "uA4FB",
    "uA4FC", "uA4FD", "uA60C", "uA66F", "uA670", "uA671", "uA672", "uA674",
    "uA675", "uA676", "uA677", "uA678", "uA679", "uA67A", "uA67B", "uA67C",
    "uA67D", "uA67F", "uA69C", "uA69D", "uA69E", "uA69F", "uA6F0", "uA6F1",
    "uA700", "uA701", "uA702", "uA703", "uA704", "uA705", "uA706", "uA707",
    "uA708", "uA709", "uA70A", "uA70B", "uA70C", "uA70D", "uA70E", "uA70F",
    "uA710", "uA711", "uA712", "uA713", "uA714", "uA715", "uA716", "uA717",
    "uA718", "uA719", "uA71A", "uA71B", "uA71C", "uA71D", "uA71E", "uA71F",
    "uA720", "uA721", "uA770", "uA788", "uA789", "uA78A", "uA7F1", "uA7F2",
    "uA7F3", "uA7F4", "uA7F8", "uA7F9", "uA802", "uA806", "uA80B", "uA825",
    "uA826", "uA82C", "uA8C4", "uA8C5", "uA8E0", "uA8E1", "uA8E2", "uA8E3",
    "uA8E4", "uA8E5", "uA8E6", "uA8E7", "uA8E8", "uA8E9", "uA8EA", "uA8EB",
    "uA8EC", "uA8ED", "uA8EE", "uA8EF", "uA8F0", "uA8F1", "uA8FF", "uA926",
    "uA927", "uA928", "uA929", "uA92A", "uA92B", "uA92C", "uA92D", "uA947",
    "uA948", "uA949", "uA94A", "uA94B", "uA94C", "uA94D", "uA94E", "uA94F",
    "uA950", "uA951", "uA980", "uA981", "uA982", "uA9B3", "uA9B6", "uA9B7",
    "uA9B8", "uA9B9", "uA9BC", "uA9BD", "uA9CF", "uA9E5", "uA9E6", "uAA29",
    "uAA2A", "uAA2B", "uAA2C", "uAA2D", "uAA2E", "uAA31", "uAA32", "uAA35",
    "uAA36", "uAA43", "uAA4C", "uAA70", "uAA7C", "uAAB0", "uAAB2", "uAAB3",
    "uAAB4", "uAAB7", "uAAB8", "uAABE", "uAABF", "uAAC1", "uAADD", "uAAEC",
    "uAAED", "uAAF3", "uAAF4", "uAAF6", "uAB5B", "uAB5C", "uAB5D", "uAB5E",
    "uAB5F", "uAB69", "uAB6A", "uAB6B", "uABE5", "uABE8", "uABED", "uFB1E",
    "uFBB2", "uFBB3", "uFBB4", "uFBB5", "uFBB6", "uFBB7", "uFBB8", "uFBB9",
    "uFBBA", "uFBBB", "uFBBC", "uFBBD", "uFBBE", "uFBBF", "uFBC0", "uFBC1",
    "uFBC2", "uFE00", "uFE01", "uFE02", "uFE03", "uFE04", "uFE05", "uFE06",
    "uFE07", "uFE08", "uFE09", "uFE0A", "uFE0B", "uFE0C", "uFE0D", "uFE0E",
    "uFE0F", "uFE13", "uFE20", "uFE21", "uFE22", "uFE23", "uFE24", "uFE25",
    "uFE26", "uFE27", "uFE28", "uFE29", "uFE2A", "uFE2B", "uFE2C", "uFE2D",
    "uFE2E", "uFE2F", "uFE52", "uFE55", "uFEFF", "uFF07", "uFF0E", "uFF1A",
    "uFF3E", "uFF40", "uFF70", "uFF9E", "uFF9F", "uFFE3", "uFFF9", "uFFFA",
    "uFFFB" }

\* the case-ignorable characters written as a surrogate pair: lead to trails
CaseIgnorableAstral ==
  [
    uD800 |->
      {
        "uDDFD", "uDEE0", "uDF76", "uDF77", "uDF78", "uDF79", "uDF7A" },
    uD801 |->
      {
        "uDF80", "uDF81", "uDF82", "uDF83", "uDF84", "uDF85", "uDF87",
        "uDF88", "uDF89", "uDF8A", "uDF8B", "uDF8C", "uDF8D", "uDF8E",
        "uDF8F", "uDF90", "uDF91", "uDF92", "uDF93", "uDF94", "uDF95",
        "uDF96", "uDF97", "uDF98", "uDF99", "uDF9A", "uDF9B", "uDF9C",
        "uDF9D", "uDF9E", "uDF9F", "uDFA0", "uDFA1", "uDFA2", "uDFA3",
        "uDFA4", "uDFA5", "uDFA6", "uDFA7", "uDFA8", "uDFA9", "uDFAA",
        "uDFAB", "uDFAC", "uDFAD", "uDFAE", "uDFAF", "uDFB0", "uDFB2",
        "uDFB3", "uDFB4", "uDFB5", "uDFB6", "uDFB7", "uDFB8", "uDFB9",
        "uDFBA" },
    uD802 |->
      {
        "uDE01", "uDE02", "uDE03", "uDE05", "uDE06", "uDE0C", "uDE0D",
        "uDE0E", "uDE0F", "uDE38", "uDE39", "uDE3A", "uDE3F", "uDEE5",
        "uDEE6" },
    uD803 |->
      {
        "uDD24", "uDD25", "uDD26", "uDD27", "uDD4E", "uDD69", "uDD6A",
        "uDD6B", "uDD6C", "uDD6D", "uDD6F", "uDEAB", "uDEAC", "uDEC5",
        "uDEFA", "uDEFB", "uDEFC", "uDEFD", "uDEFE", "uDEFF", "uDF46",
        "uDF47", "uDF48", "uDF49", "uDF4A", "uDF4B", "uDF4C", "uDF4D",
        "uDF4E", "uDF4F", "uDF50", "uDF82", "uDF83", "uDF84", "uDF85" },
    uD804 |->
      {
        "uDC01", "uDC38", "uDC39", "uDC3A", "uDC3B", "uDC3C", "uDC3D",
        "uDC3E", "uDC3F", "uDC40", "uDC41", "uDC42", "uDC43", "uDC44",
        "uDC45", "uDC46", "uDC70", "uDC73", "uDC74", "uDC7F", "uDC80",
        "uDC81", "uDCB3", "uDCB4", "uDCB5", "uDCB6", "uDCB9", "uDCBA",
        "uDCBD", "uDCC2", "uDCCD", "uDD00", "uDD01", "uDD02", "uDD27",
        "uDD28", "uDD29", "uDD2A", "uDD2B", "uDD2D", "uDD2E", "uDD2F",
        "uDD30", "uDD31", "uDD32", "uDD33", "uDD34", "uDD73", "uDD80",
        "uDD81", "uDDB6", "uDDB7", "uDDB8", "uDDB9", "uDDBA", "uDDBB",
        "uDDBC", "uDDBD", "uDDBE", "uDDC9", "uDDCA", "uDDCB", "uDDCC",
        "uDDCF", "uDE2F", "uDE30", "uDE31", "uDE34", "uDE36", "uDE37",
        "uDE3E", "uDE41", "uDEDF", "uDEE3", "uDEE4", "uDEE5", "uDEE6",
        "uDEE7", "uDEE8", "uDEE9", "uDEEA", "uDF00", "uDF01", "uDF3B",
        "uDF3C", "uDF40", "uDF66", "uDF67", "uDF68", "uDF69", "uDF6A",
        "uDF6B", "uDF6C", "uDF70", "uDF71", "uDF72", "uDF73", "uDF74",
        "uDFBB", "uDFBC", "uDFBD", "uDFBE", "uDFBF", "uDFC0", "uDFCE",
        "uDFD0", "uDFD2", "uDFE1", "uDFE2" },
    uD805 |->
      {
        "uDC38", "uDC39", "uDC3A", "uDC3B", "uDC3C", "uDC3D", "uDC3E",
        "uDC3F", "uDC42", "uDC43", "uDC44", "uDC46", "uDC5E", "uDCB3",
        "uDCB4", "uDCB5", "uDCB6", "uDCB7", "uDCB8", "uDCBA", "uDCBF",
        "uDCC0", "uDCC2", "uDCC3", "uDDB2", "uDDB3", "uDDB4", "uDDB5",
        "uDDBC", "uDDBD", "uDDBF", "uDDC0", "uDDDC", "uDDDD", "uDE33",
        "uDE34", "uDE35", "uDE36", "uDE37", "uDE38", "uDE39", "uDE3A",
        "uDE3D", "uDE3F", "uDE40", "uDEAB", "uDEAD", "uDEB0", "uDEB1",
        "uDEB2", "uDEB3", "uDEB4", "uDEB5", "uDEB7", "uDF1D", "uDF1F",
        "uDF22", "uDF23", "uDF24", "uDF25", "uDF27", "uDF28", "uDF29",
        "uDF2A", "uDF2B" },
    uD806 |->
      {
        "uDC2F", "uDC30", "uDC31", "uDC32", "uDC33", "uDC34", "uDC35",
        "uDC36", "uDC37", "uDC39", "uDC3A", "uDD3B", "uDD3C", "uDD3E",
        "uDD43", "uDDD4", "uDDD5", "uDDD6", "uDDD7", "uDDDA", "uDDDB",
        "uDDE0", "uDE01", "uDE02", "uDE03", "uDE04", "uDE05", "uDE06",
        "uDE07", "uDE08", "uDE09", "uDE0A", "uDE33", "uDE34", "uDE35",
        "uDE36", "uDE37", "uDE38", "uDE3B", "uDE3C", "uDE3D", "uDE3E",
        "uDE47", "uDE51", "uDE52", "uDE53", "uDE54", "uDE55", "uDE56",
        "uDE59", "uDE5A", "uDE5B", "uDE8A", "uDE8B", "uDE8C", "uDE8D",
        "uDE8E", "uDE8F", "uDE90", "uDE91", "uDE92", "uDE93", "uDE94",
        "uDE95", "uDE96", "uDE98", "uDE99", "uDF60", "uDF62", "uDF63",
        "uDF64", "uDF66" },
    uD807 |->
      {
        "uDC30", "uDC31", "uDC32", "uDC33", "uDC34", "uDC35", "uDC36",
        "uDC38", "uDC39", "uDC3A", "uDC3B", "uDC3C", "uDC3D", "uDC3F",
        "uDC92", "uDC93", "uDC94", "uDC95", "uDC96", "uDC97", "uDC98",
        "uDC99", "uDC9A", "uDC9B", "uDC9C", "uDC9D", "uDC9E", "uDC9F",
        "uDCA0", "uDCA1", "uDCA2", "uDCA3", "uDCA4", "uDCA5", "uDCA6",
        "uDCA7", "uDCAA", "uDCAB", "uDCAC", "uDCAD", "uDCAE", "uDCAF",
        "uDCB0", "uDCB2", "uDCB3", "uDCB5", "uDCB6", "uDD31", "uDD32",
        "uDD33", "uDD34", "uDD35", "uDD36", "uDD3A", "uDD3C", "uDD3D",
        "uDD3F", "uDD40", "uDD41", "uDD42", "uDD43", "uDD44", "uDD45",
        "uDD47", "uDD90", "uDD91", "uDD95", "uDD97", "uDDD9", "uDEF3",
        "uDEF4", "uDF00", "uDF01", "uDF36", "uDF37", "uDF38", "uDF39",
        "uDF3A", "uDF40", "uDF42", "uDF5A" },
    uD80D |->
      {
        "uDC30", "uDC31", "uDC32", "uDC33", "uDC34", "uDC35", "uDC36",
        "uDC37", "uDC38", "uDC39", "uDC3A", "uDC3B", "uDC3C", "uDC3D",
        "uDC3E", "uDC3F", "uDC40", "uDC47", "uDC48", "uDC49", "uDC4A",
        "uDC4B", "uDC4C", "uDC4D", "uDC4E", "uDC4F", "uDC50", "uDC51",
        "uDC52", "uDC53", "uDC54", "uDC55" },
    uD818 |->
      {
        "uDD1E", "uDD1F", "uDD20", "uDD21", "uDD22", "uDD23", "uDD24",
        "uDD25", "uDD26", "uDD27", "uDD28", "uDD29", "uDD2D", "uDD2E",
        "uDD2F" },
    uD81A |->
      {
        "uDEF0", "uDEF1", "uDEF2", "uDEF3", "uDEF4", "uDF30", "uDF31",
        "uDF32", "uDF33", "uDF34", "uDF35", "uDF36", "uDF40", "uDF41",
        "uDF42", "uDF43" },
    uD81B |->
      {
        "uDD40", "uDD41", "uDD42", "uDD6B", "uDD6C", "uDF4F", "uDF8F",
        "uDF90", "uDF91", "uDF92", "uDF93", "uDF94", "uDF95", "uDF96",
        "uDF97", "uDF98", "uDF99", "uDF9A", "uDF9B", "uDF9C", "uDF9D",
        "uDF9E", "uDF9F", "uDFE0", "uDFE1", "uDFE3", "uDFE4", "uDFF2",
        "uDFF3" },
    uD82B |->
      {
        "uDFF0", "uDFF1", "uDFF2", "uDFF3", "uDFF5", "uDFF6", "uDFF7",
        "uDFF8", "uDFF9", "uDFFA", "uDFFB", "uDFFD", "uDFFE" },
    uD82F |->
      {
        "uDC9D", "uDC9E", "uDCA0", "uDCA1", "uDCA2", "uDCA3" },
    uD833 |->
      {
        "uDF00", "uDF01", "uDF02", "uDF03", "uDF04", "uDF05", "uDF06",
        "uDF07", "uDF08", "uDF09", "uDF0A", "uDF0B", "uDF0C", "uDF0D",
        "uDF0E", "uDF0F", "uDF10", "uDF11", "uDF12", "uDF13", "uDF14",
        "uDF15", "uDF16", "uDF17", "uDF18", "uDF19", "uDF1A", "uDF1B",
        "uDF1C", "uDF1D", "uDF1E", "uDF1F", "uDF20", "uDF21", "uDF22",
        "uDF23", "uDF24", "uDF25", "uDF26", "uDF27", "uDF28", "uDF29",
        "uDF2A", "uDF2B", "uDF2C", "uDF2D", "uDF30", "uDF31", "uDF32",
        "uDF33", "uDF34", "uDF35", "uDF36", "uDF37", "uDF38", "uDF39",
        "uDF3A", "uDF3B", "uDF3C", "uDF3D", "uDF3E", "uDF3F", "uDF40",
        "uDF41", "uDF42", "uDF43", "uDF44", "uDF45", "uDF46" },
    uD834 |->
      {
        "uDD67", "uDD68", "uDD69", "uDD73", "uDD74", "uDD75", "uDD76",
        "uDD77", "uDD78", "uDD79", "uDD7A", "uDD7B", "uDD7C", "uDD7D",
        "uDD7E", "uDD7F", "uDD80", "uDD81", "uDD82", "uDD85", "uDD86",
        "uDD87", "uDD88", "uDD89", "uDD8A", "uDD8B", "uDDAA", "uDDAB",
        "uDDAC", "uDDAD", "uDE42", "uDE43", "uDE44" },
    uD836 |->
      {
        "uDE00", "uDE01", "uDE02", "uDE03", "uDE04", "uDE05", "uDE06",
        "uDE07", "uDE08", "uDE09", "uDE0A", "uDE0B", "uDE0C", "uDE0D",
        "uDE0E", "uDE0F", "uDE10", "uDE11", "uDE12", "uDE13", "uDE14",
        "uDE15", "uDE16", "uDE17", "uDE18", "uDE19", "uDE1A", "uDE1B",
        "uDE1C", "uDE1D", "uDE1E", "uDE1F", "uDE20", "uDE21", "uDE22",
        "uDE23", "uDE24", "uDE25", "uDE26", "uDE27", "uDE28", "uDE29",
        "uDE2A", "uDE2B", "uDE2C", "uDE2D", "uDE2E", "uDE2F", "uDE30",
        "uDE31", "uDE32", "uDE33", "uDE34", "uDE35", "uDE36", "uDE3B",
        "uDE3C", "uDE3D", "uDE3E", "uDE3F", "uDE40", "uDE41", "uDE42",
        "uDE43", "uDE44", "uDE45", "uDE46", "uDE47", "uDE48", "uDE49",
        "uDE4A", "uDE4B", "uDE4C", "uDE4D", "uDE4E", "uDE4F", "uDE50",
        "uDE51", "uDE52", "uDE53", "uDE54", "uDE55", "uDE56", "uDE57",
        "uDE58", "uDE59", "uDE5A", "uDE5B", "uDE5C", "uDE5D", "uDE5E",
        "uDE5F", "uDE60", "uDE61", "uDE62", "uDE63", "uDE64", "uDE65",
        "uDE66", "uDE67", "uDE68", "uDE69", "uDE6A", "uDE6B", "uDE6C",
        "uDE75", "uDE84", "uDE9B", "uDE9C", "uDE9D", "uDE9E", "uDE9F",
        "uDEA1", "uDEA2", "uDEA3", "uDEA4", "uDEA5", "uDEA6", "uDEA7",
        "uDEA8", "uDEA9", "uDEAA", "uDEAB", "uDEAC", "uDEAD", "uDEAE",
        "uDEAF" },
    uD838 |->
      {
        "uDC00", "uDC01", "uDC02", "uDC03", "uDC04", "uDC05", "uDC06",
        "uDC08", "uDC09", "uDC0A", "uDC0B", "uDC0C", "uDC0D", "uDC0E",
        "uDC0F", "uDC10", "uDC11", "uDC12", "uDC13", "uDC14", "uDC15",
        "uDC16", "uDC17", "uDC18", "uDC1B", "uDC1C", "uDC1D", "uDC1E",
        "uDC1F", "uDC20", "uDC21", "uDC23", "uDC24", "uDC26", "uDC27",
        "uDC28", "uDC29", "uDC2A", "uDC30", "uDC31", "uDC32", "uDC33",
        "uDC34", "uDC35", "uDC36", "uDC37", "uDC38", "uDC39", "uDC3A",
        "uDC3B", "uDC3C", "uDC3D", "uDC3E", "uDC3F", "uDC40", "uDC41",
        "uDC42", "uDC43", "uDC44", "uDC45", "uDC46", "uDC47", "uDC48",
        "uDC49", "uDC4A", "uDC4B", "uDC4C", "uDC4D", "uDC4E", "uDC4F",
        "uDC50", "uDC51", "uDC52", "uDC53", "uDC54", "uDC55", "uDC56",
        "uDC57", "uDC58", "uDC59", "uDC5A", "uDC5B", "uDC5C", "uDC5D",
        "uDC5E", "uDC5F", "uDC60", "uDC61", "uDC62", "uDC63", "uDC64",
        "uDC65", "uDC66", "uDC67", "uDC68", "uDC69", "uDC6A", "uDC6B",
        "uDC6C", "uDC6D", "uDC8F", "uDD30", "uDD31", "uDD32", "uDD33",
        "uDD34", "uDD35", "uDD36", "uDD37", "uDD38", "uDD39", "uDD3A",
        "uDD3B", "uDD3C", "uDD3D", "uDEAE", "uDEEC", "uDEED", "uDEEE",
        "uDEEF" },
    uD839 |->
      {
        "uDCEB", "uDCEC", "uDCED", "uDCEE", "uDCEF", "uDDEE", "uDDEF",
        "uDEE3", "uDEE6", "uDEEE", "uDEEF", "uDEF5", "uDEFF" },
    uD83A |->
      {
        "uDCD0", "uDCD1", "uDCD2", "uDCD3", "uDCD4", "uDCD5", "uDCD6",
        "uDD44", "uDD45", "uDD46", "uDD47", "uDD48", "uDD49", "uDD4A",
        "uDD4B" },
    uD83C |->
      {
        "uDFFB", "uDFFC", "uDFFD", "uDFFE", "uDFFF" },
    uDB40 |->
      {
        "uDC01", "uDC20", "uDC21", "uDC22", "uDC23", "uDC24", "uDC25",
        "uDC26", "uDC27", "uDC28", "uDC29", "uDC2A", "uDC2B", "uDC2C",
        "uDC2D", "uDC2E", "uDC2F", "uDC30", "uDC31", "uDC32", "uDC33",
        "uDC34", "uDC35", "uDC36", "uDC37", "uDC38", "uDC39", "uDC3A",
        "uDC3B", "uDC3C", "uDC3D", "uDC3E", "uDC3F", "uDC40", "uDC41",
        "uDC42", "uDC43", "uDC44", "uDC45", "uDC46", "uDC47", "uDC48",
        "uDC49", "uDC4A", "uDC4B", "uDC4C", "uDC4D", "uDC4E", "uDC4F",
        "uDC50", "uDC51", "uDC52", "uDC53", "uDC54", "uDC55", "uDC56",
        "uDC57", "uDC58", "uDC59", "uDC5A", "uDC5B", "uDC5C", "uDC5D",
        "uDC5E", "uDC5F", "uDC60", "uDC61", "uDC62", "uDC63", "uDC64",
        "uDC65", "uDC66", "uDC67", "uDC68", "uDC69", "uDC6A", "uDC6B",
        "uDC6C", "uDC6D", "uDC6E", "uDC6F", "uDC70", "uDC71", "uDC72",
        "uDC73", "uDC74", "uDC75", "uDC76", "uDC77", "uDC78", "uDC79",
        "uDC7A", "uDC7B", "uDC7C", "uDC7D", "uDC7E", "uDC7F", "uDD00",
        "uDD01", "uDD02", "uDD03", "uDD04", "uDD05", "uDD06", "uDD07",
        "uDD08", "uDD09", "uDD0A", "uDD0B", "uDD0C", "uDD0D", "uDD0E",
        "uDD0F", "uDD10", "uDD11", "uDD12", "uDD13", "uDD14", "uDD15",
        "uDD16", "uDD17", "uDD18", "uDD19", "uDD1A", "uDD1B", "uDD1C",
        "uDD1D", "uDD1E", "uDD1F", "uDD20", "uDD21", "uDD22", "uDD23",
        "uDD24", "uDD25", "uDD26", "uDD27", "uDD28", "uDD29", "uDD2A",
        "uDD2B", "uDD2C", "uDD2D", "uDD2E", "uDD2F", "uDD30", "uDD31",
        "uDD32", "uDD33", "uDD34", "uDD35", "uDD36", "uDD37", "uDD38",
        "uDD39", "uDD3A", "uDD3B", "uDD3C", "uDD3D", "uDD3E", "uDD3F",
        "uDD40", "uDD41", "uDD42", "uDD43", "uDD44", "uDD45", "uDD46",
        "uDD47", "uDD48", "uDD49", "uDD4A", "uDD4B", "uDD4C", "uDD4D",
        "uDD4E", "uDD4F", "uDD50", "uDD51", "uDD52", "uDD53", "uDD54",
        "uDD55", "uDD56", "uDD57", "uDD58", "uDD59", "uDD5A", "uDD5B",
        "uDD5C", "uDD5D", "uDD5E", "uDD5F", "uDD60", "uDD61", "uDD62",
        "uDD63", "uDD64", "uDD65", "uDD66", "uDD67", "uDD68", "uDD69",
        "uDD6A", "uDD6B", "uDD6C", "uDD6D", "uDD6E", "uDD6F", "uDD70",
        "uDD71", "uDD72", "uDD73", "uDD74", "uDD75", "uDD76", "uDD77",
        "uDD78", "uDD79", "uDD7A", "uDD7B", "uDD7C", "uDD7D", "uDD7E",
        "uDD7F", "uDD80", "uDD81", "uDD82", "uDD83", "uDD84", "uDD85",
        "uDD86", "uDD87", "uDD88", "uDD89", "uDD8A", "uDD8B", "uDD8C",
        "uDD8D", "uDD8E", "uDD8F", "uDD90", "uDD91", "uDD92", "uDD93",
        "uDD94", "uDD95", "uDD96", "uDD97", "uDD98", "uDD99", "uDD9A",
        "uDD9B", "uDD9C", "uDD9D", "uDD9E", "uDD9F", "uDDA0", "uDDA1",
        "uDDA2", "uDDA3", "uDDA4", "uDDA5", "uDDA6", "uDDA7", "uDDA8",
        "uDDA9", "uDDAA", "uDDAB", "uDDAC", "uDDAD", "uDDAE", "uDDAF",
        "uDDB0", "uDDB1", "uDDB2", "uDDB3", "uDDB4", "uDDB5", "uDDB6",
        "uDDB7", "uDDB8", "uDDB9", "uDDBA", "uDDBB", "uDDBC", "uDDBD",
        "uDDBE", "uDDBF", "uDDC0", "uDDC1", "uDDC2", "uDDC3", "uDDC4",
        "uDDC5", "uDDC6", "uDDC7", "uDDC8", "uDDC9", "uDDCA", "uDDCB",
        "uDDCC", "uDDCD", "uDDCE", "uDDCF", "uDDD0", "uDDD1", "uDDD2",
        "uDDD3", "uDDD4", "uDDD5", "uDDD6", "uDDD7", "uDDD8", "uDDD9",
        "uDDDA", "uDDDB", "uDDDC", "uDDDD", "uDDDE", "uDDDF", "uDDE0",
        "uDDE1", "uDDE2", "uDDE3", "uDDE4", "uDDE5", "uDDE6", "uDDE7",
        "uDDE8", "uDDE9", "uDDEA", "uDDEB", "uDDEC", "uDDED", "uDDEE",
        "uDDEF" } ]

\* the cased letters (Unicode Cased) of one code unit that are not
\* case-ignorable
CasedBMP ==
  {
    "A", "B", "C", "D", "E", "F", "G", "H", "I", "J", "K", "L", "M", "N",
    "O", "P", "Q", "R", "S", "T", "U", "V", "W", "X", "Y", "Z", "a", "b",
    "c", "d", "e", "f", "g", "h", "i", "j", "k", "l", "m", "n", "o", "p",
    "q", "r", "s", "t", "u", "v", "w", "x", "y", "z", "u00AA", "u00B5",
    "u00BA", "u00C0", "u00C1", "u00C2", "u00C3", "u00C4", "u00C5", "u00C6",
    "u00C7", "u00C8", "u00C9", "u00CA", "u00CB", "u00CC", "u00CD", "u00CE",
    "u00CF", "u00D0", "u00D1", "u00D2", "u00D3", "u00D4", "u00D5", "u00D6",
    "u00D8", "u00D9", "u00DA", "u00DB", "u00DC", "u00DD", "u00DE", "u00DF",
    "u00E0", "u00E1", "u00E2", "u00E3", "u00E4", "u00E5", "u00E6", "u00E7",
    "u00E8", "u00E9", "u00EA", "u00EB", "u00EC", "u00ED", "u00EE", "u00EF",
    "u00F0", "u00F1", "u00F2", "u00F3", "u00F4", "u00F5", "u00F6", "u00F8",
    "u00F9", "u00FA", "u00FB", "u00FC", "u00FD", "u00FE", "u00FF", "u0100",
    "u0101", "u0102", "u0103", "u0104", "u0105", "u0106", "u0107", "u0108",
    "u0109", "u010A", "u010B", "u010C", "u010D", "u010E", "u010F", "u0110",
    "u0111", "u0112", "u0113", "u0114", "u0115", "u0116", "u0117", "u0118",
    "u0119", "u011A", "u011B", "u011C", "u011D", "u011E", "u011F", "u0120",
    "u0121", "u0122", "u0123", "u0124", "u0125", "u0126", "u0127", "u0128",
    "u0129", "u012A", "u012B", "u012C", "u012D", "u012E", "u012F", "u0130",
    "u0131", "u0132", "u0133", "u0134", "u0135", "u0136", "u0137", "u0138",
    "u0139", "u013A", "u013B", "u013C", "u013D", "u013E", "u013F", "u0140",
    "u0141", "u0142", "u0143", "u0144", "u0145", "u0146", "u0147", "u0148",
    "u0149", "u014A", "u014B", "u014C", "u014D", "u014E", "u014F", "u0150",
    "u0151", "u0152", "u0153", "u0154", "u0155", "u0156", "u0157", "u0158",
    "u0159", "u015A", "u015B", "u015C", "u015D", "u015E", "u015F", "u0160",
    "u0161", "u0162", "u0163", "u0164", "u0165", "u0166", "u0167", "u0168",
    "u0169", "u016A", "u016B", "u016C", "u016D", "u016E", "u016F", "u0170",
    "u0171", "u0172", "u0173", "u0174", "u0175", "u0176", "u0177", "u0178",
    "u0179", "u017A", "u017B", "u017C", "u017D", "u017E", "u017F", "u0180",
    "u0181", "u0182", "u0183", "u0184", "u0185", "u0186", "u0187", "u0188",
    "u0189", "u018A", "u018B", "u018C", "u018D", "u018E", "u018F", "u0190",
    "u0191", "u0192", "u0193", "u0194", "u0195", "u0196", "u0197", "u0198",
    "u0199", "u019A", "u019B", "u019C", "u019D", "u019E", "u019F", "u01A0",
    "u01A1", "u01A2", "u01A3", "u01A4", "u01A5", "u01A6", "u01A7", "u01A8",
    "u01A9", "u01AA", "u01AB", "u01AC", "u01AD", "u01AE", "u01AF", "u01B0",
    "u01B1", "u01B2", "u01B3", "u01B4", "u01B5", "u01B6", "u01B7", "u01B8",
    "u01B9", "u01BA", "u01BC", "u01BD", "u01BE", "u01BF", "u01C4", "u01C5",
    "u01C6", "u01C7", "u01C8", "u01C9", "u01CA", "u01CB", "u01CC", "u01CD",
    "u01CE", "u01CF", "u01D0", "u01D1", "u01D2", "u01D3", "u01D4", "u01D5",
    "u01D6", "u01D7", "u01D8", "u01D9", "u01DA", "u01DB", "u01DC", "u01DD",
    "u01DE", "u01DF", "u01E0", "u01E1", "u01E2", "u01E3", "u01E4", "u01E5",
    "u01E6", "u01E7", "u01E8", "u01E9", "u01EA", "u01EB", "u01EC", "u01ED",
    "u01EE", "u01EF", "u01F0", "u01F1", "u01F2", "u01F3", "u01F4", "u01F5",
    "u01F6", "u01F7", "u01F8", "u01F9", "u01FA", "u01FB", "u01FC", "u01FD",
    "u01FE", "u01FF", "u0200", "u0201", "u0202", "u0203", "u0204", "u0205",
    "u0206", "u0207", "u0208", "u0209", "u020A", "u020B", "u020C", "u020D",
    "u020E", "u020F", "u0210", "u0211", "u0212", "u0213", "u0214", "u0215",
    "u0216", "u0217", "u0218", "u0219", "u021A", "u021B", "u021C", "u021D",
    "u021E", "u021F", "u0220", "u0221", "u0222", "u0223", "u0224", "u0225",
    "u0226", "u0227", "u0228", "u0229", "u022A", "u022B", "u022C", "u022D",
    "u022E", "u022F", "u0230", "u0231", "u0232", "u0233", "u0234", "u0235",
    "u0236", "u0237", "u0238", "u0239", "u023A", "u023B", "u023C", "u023D",
    "u023E", "u023F", "u0240", "u0241", "u0242", "u0243", "u0244", "u0245",
    "u0246", "u0247", "u0248", "u0249", "u024A", "u024B", "u024C", "u024D",
    "u024E", "u024F", "u0250", "u0251", "u0252", "u0253", "u0254", "u0255",
    "u0256", "u0257", "u0258", "u0259", "u025A", "u025B", "u025C", "u025D",
    "u025E", "u025F", "u0260", "u0261", "u0262", "u0263", "u0264", "u0265",
    "u0266", "u0267", "u0268", "u0269", "u026A", "u026B", "u026C", "u026D",
    "u026E", "u026F", "u0270", "u0271", "u0272", "u0273", "u0274", "u0275",
    "u0276", "u0277", "u0278", "u0279", "u027A", "u027B", "u027C", "u027D",
    "u027E", "u027F", "u0280", "u0281", "u0282", "u0283", "u0284", "u0285",
    "u0286", "u0287", "u0288", "u0289", "u028A", "u028B", "u028C", "u028D",
    "u028E", "u028F", "u0290", "u0291", "u0292", "u0293", "u0296", "u0297",
    "u0298", "u0299", "u029A", "u029B", "u029C", "u029D", "u029E", "u029F",
    "u02A0", "u02A1", "u02A2", "u02A3", "u02A4", "u02A5", "u02A6", "u02A7",
    "u02A8", "u02A9", "u02AA", "u02AB", "u02AC", "u02AD", "u02AE", "u02AF",
    "u0370", "u0371", "u0372", "u0373", "u0376", "u0377", "u037B", "u037C",
    "u037D", "u037F", "u0386", "u0388", "u0389", "u038A", "u038C", "u038E",
    "u038F", "u0390", "u0391", "u0392", "u0393", "u0394", "u0395", "u0396",
    "u0397", "u0398", "u0399", "u039A", "u039B", "u039C", "u039D", "u039E",
    "u039F", "u03A0", "u03A1", "u03A3", "u03A4", "u03A5", "u03A6", "u03A7",
    "u03A8", "u03A9", "u03AA", "u03AB", "u03AC", "u03AD", "u03AE", "u03AF",
    "u03B0", "u03B1", "u03B2", "u03B3", "u03B4", "u03B5", "u03B6", "u03B7",
    "u03B8", "u03B9", "u03BA", "u03BB", "u03BC", "u03BD", "u03BE", "u03BF",
    "u03C0", "u03C1", "u03C2", "u03C3", "u03C4", "u03C5", "u03C6", "u03C7",
    "u03C8", "u03C9", "u03CA", "u03CB", "u03CC", "u03CD", "u03CE", "u03CF",
    "u03D0", "u03D1", "u03D2", "u03D3", "u03D4", "u03D5", "u03D6", "u03D7",
    "u03D8", "u03D9", "u03DA", "u03DB", "u03DC", "u03DD", "u03DE", "u03DF",
    "u03E0", "u03E1", "u03E2", "u03E3", "u03E4", "u03E5", "u03E6", "u03E7",
    "u03E8", "u03E9", "u03EA", "u03EB", "u03EC", "u03ED", "u03EE", "u03EF",
    "u03F0", "u03F1", "u03F2", "u03F3", "u03F4", "u03F5", "u03F7", "u03F8",
    "u03F9", "u03FA", "u03FB", "u03FC", "u03FD", "u03FE", "u03FF", "u0400",
    "u0401", "u0402", "u0403", "u0404", "u0405", "u0406", "u0407", "u0408",
    "u0409", "u040A", "u040B", "u040C", "u040D", "u040E", "u040F", "u0410",
    "u0411", "u0412", "u0413", "u0414", "u0415", "u0416", "u0417", "u0418",
    "u0419", "u041A", "u041B", "u041C", "u041D", "u041E", "u041F", "u0420",
    "u0421", "u0422", "u0423", "u0424", "u0425", "u0426", "u0427", "u0428",
    "u0429", "u042A", "u042B", "u042C", "u042D", "u042E", "u042F", "u0430",
    "u0431", "u0432", "u0433", "u0434", "u0435", "u0436", "u0437", "u0438",
    "u0439", "u043A", "u043B", "u043C", "u043D", "u043E", "u043F", "u0440",
    "u0441", "u0442", "u0443", "u0444", "u0445", "u0446", "u0447", "u0448",
    "u0449", "u044A", "u044B", "u044C", "u044D", "u044E", "u044F", "u0450",
    "u0451", "u0452", "u0453", "u0454", "u0455", "u0456", "u0457", "u0458",
    "u0459", "u045A", "u045B", "u045C", "u045D", "u045E", "u045F", "u0460",
    "u0461", "u0462", "u0463", "u0464", "u0465", "u0466", "u0467", "u0468",
    "u0469", "u046A", "u046B", "u046C", "u046D", "u046E", "u046F", "u0470",
    "u0471", "u0472", "u0473", "u0474", "u0475", "u0476", "u0477", "u0478",
    "u0479", "u047A", "u047B", "u047C", "u047D", "u047E", "u047F", "u0480",
    "u0481", "u048A", "u048B", "u048C", "u048D", "u048E", "u048F", "u0490",
    "u0491", "u0492", "u0493", "u0494", "u0495", "u0496", "u0497", "u0498",
    "u0499", "u049A", "u049B", "u049C", "u049D", "u049E", "u049F", "u04A0",
    "u04A1", "u04A2", "u04A3", "u04A4", "u04A5", "u04A6", "u04A7", "u04A8",
    "u04A9", "u04AA", "u04AB", "u04AC", "u04AD", "u04AE", "u04AF", "u04B0",
    "u04B1", "u04B2", "u04B3", "u04B4", "u04B5", "u04B6", "u04B7", "u04B8",
    "u04B9", "u04BA", "u04BB", "u04BC", "u04BD", "u04BE", "u04BF", "u04C0",
    "u04C1", "u04C2", "u04C3", "u04C4", "u04C5", "u04C6", "u04C7", "u04C8",
    "u04C9", "u04CA", "u04CB", "u04CC", "u04CD", "u04CE", "u04CF", "u04D0",
    "u04D1", "u04D2", "u04D3", "u04D4", "u04D5", "u04D6", "u04D7", "u04D8",
    "u04D9", "u04DA", "u04DB", "u04DC", "u04DD", "u04DE", "u04DF", "u04E0",
    "u04E1", "u04E2", "u04E3", "u04E4", "u04E5", "u04E6", "u04E7", "u04E8",
    "u04E9", "u04EA", "u04EB", "u04EC", "u04ED", "u04EE", "u04EF", "u04F0",
    "u04F1", "u04F2", "u04F3", "u04F4", "u04F5", "u04F6", "u04F7", "u04F8",
    "u04F9", "u04FA", "u04FB", "u04FC", "u04FD", "u04FE", "u04FF", "u0500",
    "u0501", "u0502", "u0503", "u0504", "u0505", "u0506", "u0507", "u0508",
    "u0509", "u050A", "u050B", "u050C", "u050D", "u050E", "u050F", "u0510",
    "u0511", "u0512", "u0513", "u0514", "u0515", "u0516", "u0517", "u0518",
    "u0519", "u051A", "u051B", "u051C", "u051D", "u051E", "u051F", "u0520",
    "u0521", "u0522", "u0523", "u0524", "u0525", "u0526", "u0527", "u0528",
    "u0529", "u052A", "u052B", "u052C", "u052D", "u052E", "u052F", "u0531",
    "u0532", "u0533", "u0534", "u0535", "u0536", "u0537", "u0538", "u0539",
    "u053A", "u053B", "u053C", "u053D", "u053E", "u053F", "u0540", "u0541",
    "u0542", "u0543", "u0544", "u0545", "u0546", "u0547", "u0548", "u0549",
    "u054A", "u054B", "u054C", "u054D", "u054E", "u054F", "u0550", "u0551",
    "u0552", "u0553", "u0554", "u0555", "u0556", "u0560", "u0561", "u0562",
    "u0563", "u0564", "u0565", "u0566", "u0567", "u0568", "u0569", "u056A",
    "u056B", "u056C", "u056D", "u056E", "u056F", "u0570", "u0571", "u0572",
    "u0573", "u0574", "u0575", "u0576", "u0577", "u0578", "u0579", "u057A",
    "u057B", "u057C", "u057D", "u057E", "u057F", "u0580", "u0581", "u0582",
    "u0583", "u0584", "u0585", "u0586", "u0587", "u0588", "u10A0", "u10A1",
    "u10A2", "u10A3", "u10A4", "u10A5", "u10A6", "u10A7", "u10A8", "u10A9",
    "u10AA", "u10AB", "u10AC", "u10AD", "u10AE", "u10AF", "u10B0", "u10B1",
    "u10B2", "u10B3", "u10B4", "u10B5", "u10B6", "u10B7", "u10B8", "u10B9",
    "u10BA", "u10BB", "u10BC", "u10BD", "u10BE", "u10BF", "u10C0", "u10C1",
    "u10C2", "u10C3", "u10C4", "u10C5", "u10C7", "u10CD", "u10D0", "u10D1",
    "u10D2", "u10D3", "u10D4", "u10D5", "u10D6", "u10D7", "u10D8", "u10D9",
    "u10DA", "u10DB", "u10DC", "u10DD", "u10DE", "u10DF", "u10E0", "u10E1",
    "u10E2", "u10E3", "u10E4", "u10E5", "u10E6", "u10E7", "u10E8", "u10E9",
    "u10EA", "u10EB", "u10EC", "u10ED", "u10EE", "u10EF", "u10F0", "u10F1",
    "u10F2", "u10F3", "u10F4", "u10F5", "u10F6", "u10F7", "u10F8", "u10F9",
    "u10FA", "u10FD", "u10FE", "u10FF", "u13A0", "u13A1", "u13A2", "u13A3",
    "u13A4", "u13A5", "u13A6", "u13A7", "u13A8", "u13A9", "u13AA", "u13AB",
    "u13AC", "u13AD", "u13AE", "u13AF", "u13B0", "u13B1", "u13B2", "u13B3",
    "u13B4", "u13B5", "u13B6", "u13B7", "u13B8", "u13B9", "u13BA", "u13BB",
    "u13BC", "u13BD", "u13BE", "u13BF", "u13C0", "u13C1", "u13C2", "u13C3",
    "u13C4", "u13C5", "u13C6", "u13C7", "u13C8", "u13C9", "u13CA", "u13CB",
    "u13CC", "u13CD", "u13CE", "u13CF", "u13D0", "u13D1", "u13D2", "u13D3",
    "u13D4", "u13D5", "u13D6", "u13D7", "u13D8", "u13D9", "u13DA", "u13DB",
    "u13DC", "u13DD", "u13DE", "u13DF", "u13E0", "u13E1", "u13E2", "u13E3",
    "u13E4", "u13E5", "u13E6", "u13E7", "u13E8", "u13E9", "u13EA", "u13EB",
    "u13EC", "u13ED", "u13EE", "u13EF", "u13F0", "u13F1", "u13F2", "u13F3",
    "u13F4", "u13F5", "u13F8", "u13F9", "u13FA", "u13FB", "u13FC", "u13FD",
    "u1C80", "u1C81", "u1C82", "u1C83", "u1C84", "u1C85", "u1C86", "u1C87",
    "u1C88", "u1C89", "u1C8A", "u1C90", "u1C91", "u1C92", "u1C93", "u1C94",
    "u1C95", "u1C96", "u1C97", "u1C98", "u1C99", "u1C9A", "u1C9B", "u1C9C",
    "u1C9D", "u1C9E", "u1C9F", "u1CA0", "u1CA1", "u1CA2", "u1CA3", "u1CA4",
    "u1CA5", "u1CA6", "u1CA7", "u1CA8", "u1CA9", "u1CAA", "u1CAB", "u1CAC",
    "u1CAD", "u1CAE", "u1CAF", "u1CB0", "u1CB1", "u1CB2", "u1CB3", "u1CB4",
    "u1CB5", "u1CB6", "u1CB7", "u1CB8", "u1CB9", "u1CBA", "u1CBD", "u1CBE",
    "u1CBF", "u1D00", "u1D01", "u1D02", "u1D03", "u1D04", "u1D05", "u1D06",
    "u1D07", "u1D08", "u1D09", "u1D0A", "u1D0B", "u1D0C", "u1D0D", "u1D0E",
    "u1D0F", "u1D10", "u1D11", "u1D12", "u1D13", "u1D14", "u1D15", "u1D16",
    "u1D17", "u1D18", "u1D19", "u1D1A", "u1D1B", "u1D1C", "u1D1D", "u1D1E",
    "u1D1F", "u1D20", "u1D21", "u1D22", "u1D23", "u1D24", "u1D25", "u1D26",
    "u1D27", "u1D28", "u1D29", "u1D2A", "u1D2B", "u1D6B", "u1D6C", "u1D6D",
    "u1D6E", "u1D6F", "u1D70", "u1D71", "u1D72", "u1D73", "u1D74", "u1D75",
    "u1D76", "u1D77", "u1D79", "u1D7A", "u1D7B", "u1D7C", "u1D7D", "u1D7E",
    "u1D7F", "u1D80", "u1D81", "u1D82", "u1D83", "u1D84", "u1D85", "u1D86",
    "u1D87", "u1D88", "u1D89", "u1D8A", "u1D8B", "u1D8C", "u1D8D", "u1D8E",
    "u1D8F", "u1D90", "u1D91", "u1D92", "u1D93", "u1D94", "u1D95", "u1D96",
    "u1D97", "u1D98", "u1D99", "u1D9A", "u1E00", "u1E01", "u1E02", "u1E03",
    "u1E04", "u1E05", "u1E06", "u1E07", "u1E08", "u1E09", "u1E0A", "u1E0B",
    "u1E0C", "u1E0D", "u1E0E", "u1E0F", "u1E10", "u1E11", "u1E12", "u1E13",
    "u1E14", "u1E15", "u1E16", "u1E17", "u1E18", "u1E19", "u1E1A", "u1E1B",
    "u1E1C", "u1E1D", "u1E1E", "u1E1F", "u1E20", "u1E21", "u1E22", "u1E23",
    "u1E24", "u1E25", "u1E26", "u1E27", "u1E28", "u1E29", "u1E2A", "u1E2B",
    "u1E2C", "u1E2D", "u1E2E", "u1E2F", "u1E30", "u1E31", "u1E32", "u1E33",
    "u1E34", "u1E35", "u1E36", "u1E37", "u1E38", "u1E39", "u1E3A", "u1E3B",
    "u1E3C", "u1E3D", "u1E3E", "u1E3F", "u1E40", "u1E41", "u1E42", "u1E43",
    "u1E44", "u1E45", "u1E46", "u1E47", "u1E48", "u1E49", "u1E4A", "u1E4B",
    "u1E4C", "u1E4D", "u1E4E", "u1E4F", "u1E50", "u1E51", "u1E52", "u1E53",
    "u1E54", "u1E55", "u1E56", "u1E57", "u1E58", "u1E59", "u1E5A", "u1E5B",
    "u1E5C", "u1E5D", "u1E5E", "u1E5F", "u1E60", "u1E61", "u1E62", "u1E63",
    "u1E64", "u1E65", "u1E66", "u1E67", "u1E68", "u1E69", "u1E6A", "u1E6B",
    "u1E6C", "u1E6D", "u1E6E", "u1E6F", "u1E70", "u1E71", "u1E72", "u1E73",
    "u1E74", "u1E75", "u1E76", "u1E77", "u1E78", "u1E79", "u1E7A", "u1E7B",
    "u1E7C", "u1E7D", "u1E7E", "u1E7F", "u1E80", "u1E81", "u1E82", "u1E83",
    "u1E84", "u1E85", "u1E86", "u1E87", "u1E88", "u1E89", "u1E8A", "u1E8B",
    "u1E8C", "u1E8D", "u1E8E", "u1E8F", "u1E90", "u1E91", "u1E92", "u1E93",
    "u1E94", "u1E95", "u1E96", "u1E97", "u1E98", "u1E99", "u1E9A", "u1E9B",
    "u1E9C", "u1E9D", "u1E9E", "u1E9F", "u1EA0", "u1EA1", "u1EA2", "u1EA3",
    "u1EA4", "u1EA5", "u1EA6", "u1EA7", "u1EA8", "u1EA9", "u1EAA", "u1EAB",
    "u1EAC", "u1EAD", "u1EAE", "u1EAF", "u1EB0", "u1EB1", "u1EB2", "u1EB3",
    "u1EB4", "u1EB5", "u1EB6", "u1EB7", "u1EB8", "u1EB9", "u1EBA", "u1EBB",
    "u1EBC", "u1EBD", "u1EBE", "u1EBF", "u1EC0", "u1EC1", "u1EC2", "u1EC3",
    "u1EC4", "u1EC5", "u1EC6", "u1EC7", "u1EC8", "u1EC9", "u1ECA", "u1ECB",
    "u1ECC", "u1ECD", "u1ECE", "u1ECF", "u1ED0", "u1ED1", "u1ED2", "u1ED3",
    "u1ED4", "u1ED5", "u1ED6", "u1ED7", "u1ED8", "u1ED9", "u1EDA", "u1EDB",
    "u1EDC", "u1EDD", "u1EDE", "u1EDF", "u1EE0", "u1EE1", "u1EE2", "u1EE3",
    "u1EE4", "u1EE5", "u1EE6", "u1EE7", "u1EE8", "u1EE9", "u1EEA", "u1EEB",
    "u1EEC", "u1EED", "u1EEE", "u1EEF", "u1EF0", "u1EF1", "u1EF2", "u1EF3",
    "u1EF4", "u1EF5", "u1EF6", "u1EF7", "u1EF8", "u1EF9", "u1EFA", "u1EFB",
    "u1EFC", "u1EFD", "u1EFE", "u1EFF", "u1F00", "u1F01", "u1F02", "u1F03",
    "u1F04", "u1F05", "u1F06", "u1F07", "u1F08", "u1F09", "u1F0A", "u1F0B",
    "u1F0C", "u1F0D", "u1F0E", "u1F0F", "u1F10", "u1F11", "u1F12", "u1F13",
    "u1F14", "u1F15", "u1F18", "u1F19", "u1F1A", "u1F1B", "u1F1C", "u1F1D",
    "u1F20", "u1F21", "u1F22", "u1F23", "u1F24", "u1F25", "u1F26", "u1F27",
    "u1F28", "u1F29", "u1F2A", "u1F2B", "u1F2C", "u1F2D", "u1F2E", "u1F2F",
    "u1F30", "u1F31", "u1F32", "u1F33", "u1F34", "u1F35", "u1F36", "u1F37",
    "u1F38", "u1F39", "u1F3A", "u1F3B", "u1F3C", "u1F3D", "u1F3E", "u1F3F",
    "u1F40", "u1F41", "u1F42", "u1F43", "u1F44", "u1F45", "u1F48", "u1F49",
    "u1F4A", "u1F4B", "u1F4C", "u1F4D", "u1F50", "u1F51", "u1F52", "u1F53",
    "u1F54", "u1F55", "u1F56", "u1F57", "u1F59", "u1F5B", "u1F5D", "u1F5F",
    "u1F60", "u1F61", "u1F62", "u1F63", "u1F64", "u1F65", "u1F66", "u1F67",
    "u1F68", "u1F69", "u1F6A", "u1F6B", "u1F6C", "u1F6D", "u1F6E", "u1F6F",
    "u1F70", "u1F71", "u1F72", "u1F73", "u1F74", "u1F75", "u1F76", "u1F77",
    "u1F78", "u1F79", "u1F7A", "u1F7B", "u1F7C", "u1F7D", "u1F80", "u1F81",
    "u1F82", "u1F83", "u1F84", "u1F85", "u1F86", "u1F87", "u1F88", "u1F89",
    "u1F8A", "u1F8B", "u1F8C", "u1F8D", "u1F8E", "u1F8F", "u1F90", "u1F91",
    "u1F92", "u1F93", "u1F94", "u1F95", "u1F96", "u1F97", "u1F98", "u1F99",
    "u1F9A", "u1F9B", "u1F9C", "u1F9D", "u1F9E", "u1F9F", "u1FA0", "u1FA1",
    "u1FA2", "u1FA3", "u1FA4", "u1FA5", "u1FA6", "u1FA7", "u1FA8", "u1FA9",
    "u1FAA", "u1FAB", "u1FAC", "u1FAD", "u1FAE", "u1FAF", "u1FB0", "u1FB1",
    "u1FB2", "u1FB3", "u1FB4", "u1FB6", "u1FB7", "u1FB8", "u1FB9", "u1FBA",
    "u1FBB", "u1FBC", "u1FBE", "u1FC2", "u1FC3", "u1FC4", "u1FC6", "u1FC7",
    "u1FC8", "u1FC9", "u1FCA", "u1FCB", "u1FCC", "u1FD0", "u1FD1", "u1FD2",
    "u1FD3", "u1FD6", "u1FD7", "u1FD8", "u1FD9", "u1FDA", "u1FDB", "u1FE0",
    "u1FE1", "u1FE2", "u1FE3", "u1FE4", "u1FE5", "u1FE6", "u1FE7", "u1FE8",
    "u1FE9", "u1FEA", "u1FEB", "u1FEC", "u1FF2", "u1FF3", "u1FF4", "u1FF6",
    "u1FF7", "u1FF8", "u1FF9", "u1FFA", "u1FFB", "u1FFC", "u2102", "u2107",
    "u210A", "u210B", "u210C", "u210D", "u210E", "u210F", "u2110", "u2111",
    "u2112", "u2113", "u2115", "u2119", "u211A", "u211B", "u211C", "u211D",
    "u2124", "u2126", "u2128", "u212A", "u212B", "u212C", "u212D", "u212F",
    "u2130", "u2131", "u2132", "u2133", "u2134", "u2139", "u213C", "u213D",
    "u213E", "u213F", "u2145", "u2146", "u2147", "u2148", "u2149", "u214E",
    "u2160", "u2161", "u2162", "u2163", "u2164", "u2165", "u2166", "u2167",
    "u2168", "u2169", "u216A", "u216B", "u216C", "u216D", "u216E", "u216F",
    "u2170", "u2171", "u2172", "u2173", "u2174", "u2175", "u2176", "u2177",
    "u2178", "u2179", "u217A", "u217B", "u217C", "u217D", "u217E", "u217F",
    "u2183", "u2184", "u24B6", "u24B7", "u24B8", "u24B9", "u24BA", "u24BB",
    "u24BC", "u24BD", "u24BE", "u24BF", "u24C0", "u24C1", "u24C2", "u24C3",
    "u24C4", "u24C5", "u24C6", "u24C7", "u24C8", "u24C9", "u24CA", "u24CB",
    "u24CC", "u24CD", "u24CE", "u24CF", "u24D0", "u24D1", "u24D2", "u24D3",
    "u24D4", "u24D5", "u24D6", "u24D7", "u24D8", "u24D9", "u24DA", "u24DB",
    "u24DC", "u24DD", "u24DE", "u24DF", "u24E0", "u24E1", "u24E2", "u24E3",
    "u24E4", "u24E5", "u24E6", "u24E7", "u24E8", "u24E9", "u2C00", "u2C01",
    "u2C02", "u2C03", "u2C04", "u2C05", "u2C06", "u2C07", "u2C08", "u2C09",
    "u2C0A", "u2C0B", "u2C0C", "u2C0D", "u2C0E", "u2C0F", "u2C10", "u2C11",
    "u2C12", "u2C13", "u2C14", "u2C15", "u2C16", "u2C17", "u2C18", "u2C19",
    "u2C1A", "u2C1B", "u2C1C", "u2C1D", "u2C1E", "u2C1F", "u2C20", "u2C21",
    "u2C22", "u2C23", "u2C24", "u2C25", "u2C26", "u2C27", "u2C28", "u2C29",
    "u2C2A", "u2C2B", "u2C2C", "u2C2D", "u2C2E", "u2C2F", "u2C30", "u2C31",
    "u2C32", "u2C33", "u2C34", "u2C35", "u2C36", "u2C37", "u2C38", "u2C39",
    "u2C3A", "u2C3B", "u2C3C", "u2C3D", "u2C3E", "u2C3F", "u2C40", "u2C41",
    "u2C42", "u2C43", "u2C44", "u2C45", "u2C46", "u2C47", "u2C48", "u2C49",
    "u2C4A", "u2C4B", "u2C4C", "u2C4D", "u2C4E", "u2C4F", "u2C50", "u2C51",
    "u2C52", "u2C53", "u2C54", "u2C55", "u2C56", "u2C57", "u2C58", "u2C59",
    "u2C5A", "u2C5B", "u2C5C", "u2C5D", "u2C5E", "u2C5F", "u2C60", "u2C61",
    "u2C62", "u2C63", "u2C64", "u2C65", "u2C66", "u2C67", "u2C68", "u2C69",
    "u2C6A", "u2C6B", "u2C6C", "u2C6D", "u2C6E", "u2C6F", "u2C70", "u2C71",
    "u2C72", "u2C73", "u2C74", "u2C75", "u2C76", "u2C77", "u2C78", "u2C79",
    "u2C7A", "u2C7B", "u2C7E", "u2C7F", "u2C80", "u2C81", "u2C82", "u2C83",
    "u2C84", "u2C85", "u2C86", "u2C87", "u2C88", "u2C89", "u2C8A", "u2C8B",
    "u2C8C", "u2C8D", "u2C8E", "u2C8F", "u2C90", "u2C91", "u2C92", "u2C93",
    "u2C94", "u2C95", "u2C96", "u2C97", "u2C98", "u2C99", "u2C9A", "u2C9B",
    "u2C9C", "u2C9D", "u2C9E", "u2C9F", "u2CA0", "u2CA1", "u2CA2", "u2CA3",
    "u2CA4", "u2CA5", "u2CA6", "u2CA7", "u2CA8", "u2CA9", "u2CAA", "u2CAB",
    "u2CAC", "u2CAD", "u2CAE", "u2CAF", "u2CB0", "u2CB1", "u2CB2", "u2CB3",
    "u2CB4", "u2CB5", "u2CB6", "u2CB7", "u2CB8", "u2CB9", "u2CBA", "u2CBB",
    "u2CBC", "u2CBD", "u2CBE", "u2CBF", "u2CC0", "u2CC1", "u2CC2", "u2CC3",
    "u2CC4", "u2CC5", "u2CC6", "u2CC7", "u2CC8", "u2CC9", "u2CCA", "u2CCB",
    "u2CCC", "u2CCD", "u2CCE", "u2CCF", "u2CD0", "u2CD1", "u2CD2", "u2CD3",
    "u2CD4", "u2CD5", "u2CD6", "u2CD7", "u2CD8", "u2CD9", "u2CDA", "u2CDB",
    "u2CDC", "u2CDD", "u2CDE", "u2CDF", "u2CE0", "u2CE1", "u2CE2", "u2CE3",
    "u2CE4", "u2CEB", "u2CEC", "u2CED", "u2CEE", "u2CF2", "u2CF3", "u2D00",
    "u2D01", "u2D02", "u2D03", "u2D04", "u2D05", "u2D06", "u2D07", "u2D08",
    "u2D09", "u2D0A", "u2D0B", "u2D0C", "u2D0D", "u2D0E", "u2D0F", "u2D10",
    "u2D11", "u2D12", "u2D13", "u2D14", "u2D15", "u2D16", "u2D17", "u2D18",
    "u2D19", "u2D1A", "u2D1B", "u2D1C", "u2D1D", "u2D1E", "u2D1F", "u2D20",
    "u2D21", "u2D22", "u2D23", "u2D24", "u2D25", "u2D27", "u2D2D", "uA640",
    "uA641", "uA642", "uA643", "uA644", "uA645", "uA646", "uA647", "uA648",
    "uA649", "uA64A", "uA64B", "uA64C", "uA64D", "uA64E", "uA64F", "uA650",
    "uA651", "uA652", "uA653", "uA654", "uA655", "uA656", "uA657", "uA658",
    "uA659", "uA65A", "uA65B", "uA65C", "uA65D", "uA65E", "uA65F", "uA660",
    "uA661", "uA662", "uA663", "uA664", "uA665", "uA666", "uA667", "uA668",
    "uA669", "uA66A", "uA66B", "uA66C", "uA66D", "uA680", "uA681", "uA682",
    "uA683", "uA684", "uA685", "uA686", "uA687", "uA688", "uA689", "uA68A",
    "uA68B", "uA68C", "uA68D", "uA68E", "uA68F", "uA690", "uA691", "uA692",
    "uA693", "uA694", "uA695", "uA696", "uA697", "uA698", "uA699", "uA69A",
    "uA69B", "uA722", "uA723", "uA724", "uA725", "uA726", "uA727", "uA728",
    "uA729", "uA72A", "uA72B", "uA72C", "uA72D", "uA72E", "uA72F", "uA730",
    "uA731", "uA732", "uA733", "uA734", "uA735", "uA736", "uA737", "uA738",
    "uA739", "uA73A", "uA73B", "uA73C", "uA73D", "uA73E", "uA73F", "uA740",
    "uA741", "uA742", "uA743", "uA744", "uA745", "uA746", "uA747", "uA748",
    "uA749", "uA74A", "uA74B", "uA74C", "uA74D", "uA74E", "uA74F", "uA750",
    "uA751", "uA752", "uA753", "uA754", "uA755", "uA756", "uA757", "uA758",
    "uA759", "uA75A", "uA75B", "uA75C", "uA75D", "uA75E", "uA75F", "uA760",
    "uA761", "uA762", "uA763", "uA764", "uA765", "uA766", "uA767", "uA768",
    "uA769", "uA76A", "uA76B", "uA76C", "uA76D", "uA76E", "uA76F", "uA771",
    "uA772", "uA773", "uA774", "uA775", "uA776", "uA777", "uA778", "uA779",
    "uA77A", "uA77B", "uA77C", "uA77D", "uA77E", "uA77F", "uA780", "uA781",
    "uA782", "uA783", "uA784", "uA785", "uA786", "uA787", "uA78B", "uA78C",
    "uA78D", "uA78E", "uA790", "uA791", "uA792", "uA793", "uA794", "uA795",
    "uA796", "uA797", "uA798", "uA799", "uA79A", "uA79B", "uA79C", "uA79D",
    "uA79E", "uA79F", "uA7A0", "uA7A1", "uA7A2", "uA7A3", "uA7A4", "uA7A5",
    "uA7A6", "uA7A7", "uA7A8", "uA7A9", "uA7AA", "uA7AB", "uA7AC", "uA7AD",
    "uA7AE", "uA7AF", "uA7B0", "uA7B1", "uA7B2", "uA7B3", "uA7B4", "uA7B5",
    "uA7B6", "uA7B7", "uA7B8", "uA7B9", "uA7BA", "uA7BB", "uA7BC", "uA7BD",
    "uA7BE", "uA7BF", "uA7C0", "uA7C1", "uA7C2", "uA7C3", "uA7C4", "uA7C5",
    "uA7C6", "uA7C7", "uA7C8", "uA7C9", "uA7CA", "uA7CB", "uA7CC", "uA7CD",
    "uA7CE", "uA7CF", "uA7D0", "uA7D1", "uA7D2", "uA7D3", "uA7D4", "uA7D5",
    "uA7D6", "uA7D7", "uA7D8", "uA7D9", "uA7DA", "uA7DB", "uA7DC", "uA7F5",
    "uA7F6", "uA7FA", "uAB30", "uAB31", "uAB32", "uAB33", "uAB34", "uAB35",
    "uAB36", "uAB37", "uAB38", "uAB39", "uAB3A", "uAB3B", "uAB3C", "uAB3D",
    "uAB3E", "uAB3F", "uAB40", "uAB41", "uAB42", "uAB43", "uAB44", "uAB45",
    "uAB46", "uAB47", "uAB48", "uAB49", "uAB4A", "uAB4B", "uAB4C", "uAB4D",
    "uAB4E", "uAB4F", "uAB50", "uAB51", "uAB52", "uAB53", "uAB54", "uAB55",
    "uAB56", "uAB57", "uAB58", "uAB59", "uAB5A", "uAB60", "uAB61", "uAB62",
    "uAB63", "uAB64", "uAB65", "uAB66", "uAB67", "uAB68", "uAB70", "uAB71",
    "uAB72", "uAB73", "uAB74", "uAB75", "uAB76", "uAB77", "uAB78", "uAB79",
    "uAB7A", "uAB7B", "uAB7C", "uAB7D", "uAB7E", "uAB7F", "uAB80", "uAB81",
    "uAB82", "uAB83", "uAB84", "uAB85", "uAB86", "uAB87", "uAB88", "uAB89",
    "uAB8A", "uAB8B", "uAB8C", "uAB8D", "uAB8E", "uAB8F", "uAB90", "uAB91",
    "uAB92", "uAB93", "uAB94", "uAB95", "uAB96", "uAB97", "uAB98", "uAB99",
    "uAB9A", "uAB9B", "uAB9C", "uAB9D", "uAB9E", "uAB9F", "uABA0", "uABA1",
    "uABA2", "uABA3", "uABA4", "uABA5", "uABA6", "uABA7", "uABA8", "uABA9",
    "uABAA", "uABAB", "uABAC", "uABAD", "uABAE", "uABAF", "uABB0", "uABB1",
    "uABB2", "uABB3", "uABB4", "uABB5", "uABB6", "uABB7", "uABB8", "uABB9",
    "uABBA", "uABBB", "uABBC", "uABBD", "uABBE", "uABBF", "uFB00", "uFB01",
    "uFB02", "uFB03", "uFB04", "uFB05", "uFB06", "uFB13", "uFB14", "uFB15",
    "uFB16", "uFB17", "uFF21", "uFF22", "uFF23", "uFF24", "uFF25", "uFF26",
    "uFF27", "uFF28", "uFF29", "uFF2A", "uFF2B", "uFF2C", "uFF2D", "uFF2E",
    "uFF2F", "uFF30", "uFF31", "uFF32", "uFF33", "uFF34", "uFF35", "uFF36",
    "uFF37", "uFF38", "uFF39", "uFF3A", "uFF41", "uFF42", "uFF43", "uFF44",
    "uFF45", "uFF46", "uFF47", "uFF48", "uFF49", "uFF4A", "uFF4B", "uFF4C",
    "uFF4D", "uFF4E", "uFF4F", "uFF50", "uFF51", "uFF52", "uFF53", "uFF54",
    "uFF55", "uFF56", "uFF57", "uFF58", "uFF59", "uFF5A" }

\* the cased letters written as a surrogate pair: lead to trails
CasedAstral ==
  [
    uD801 |->
      {
        "uDC00", "uDC01", "uDC02", "uDC03", "uDC04", "uDC05", "uDC06",
        "uDC07", "uDC08", "uDC09", "uDC0A", "uDC0B", "uDC0C", "uDC0D",
        "uDC0E", "uDC0F", "uDC10", "uDC11", "uDC12", "uDC13", "uDC14",
        "uDC15", "uDC16", "uDC17", "uDC18", "uDC19", "uDC1A", "uDC1B",
        "uDC1C", "uDC1D", "uDC1E", "uDC1F", "uDC20", "uDC21", "uDC22",
        "uDC23", "uDC24", "uDC25", "uDC26", "uDC27", "uDC28", "uDC29",
        "uDC2A", "uDC2B", "uDC2C", "uDC2D", "uDC2E", "uDC2F", "uDC30",
        "uDC31", "uDC32", "uDC33", "uDC34", "uDC35", "uDC36", "uDC37",
        "uDC38", "uDC39", "uDC3A", "uDC3B", "uDC3C", "uDC3D", "uDC3E",
        "uDC3F", "uDC40", "uDC41", "uDC42", "uDC43", "uDC44", "uDC45",
        "uDC46", "uDC47", "uDC48", "uDC49", "uDC4A", "uDC4B", "uDC4C",
        "uDC4D", "uDC4E", "uDC4F", "uDCB0", "uDCB1", "uDCB2", "uDCB3",
        "uDCB4", "uDCB5", "uDCB6", "uDCB7", "uDCB8", "uDCB9", "uDCBA",
        "uDCBB", "uDCBC", "uDCBD", "uDCBE", "uDCBF", "uDCC0", "uDCC1",
        "uDCC2", "uDCC3", "uDCC4", "uDCC5", "uDCC6", "uDCC7", "uDCC8",
        "uDCC9", "uDCCA", "uDCCB", "uDCCC", "uDCCD", "uDCCE", "uDCCF",
        "uDCD0", "uDCD1", "uDCD2", "uDCD3", "uDCD8", "uDCD9", "uDCDA",
        "uDCDB", "uDCDC", "uDCDD", "uDCDE", "uDCDF", "uDCE0", "uDCE1",
        "uDCE2", "uDCE3", "uDCE4", "uDCE5", "uDCE6", "uDCE7", "uDCE8",
        "uDCE9", "uDCEA", "uDCEB", "uDCEC", "uDCED", "uDCEE", "uDCEF",
        "uDCF0", "uDCF1", "uDCF2", "uDCF3", "uDCF4", "uDCF5", "uDCF6",
        "uDCF7", "uDCF8", "uDCF9", "uDCFA", "uDCFB", "uDD70", "uDD71",
        "uDD72", "uDD73", "uDD74", "uDD75", "uDD76", "uDD77", "uDD78",
        "uDD79", "uDD7A", "uDD7C", "uDD7D", "uDD7E", "uDD7F", "uDD80",
        "uDD81", "uDD82", "uDD83", "uDD84", "uDD85", "uDD86", "uDD87",
        "uDD88", "uDD89", "uDD8A", "uDD8C", "uDD8D", "uDD8E", "uDD8F",
        "uDD90", "uDD91", "uDD92", "uDD94", "uDD95", "uDD97", "uDD98",
        "uDD99", "uDD9A", "uDD9B", "uDD9C", "uDD9D", "uDD9E", "uDD9F",
        "uDDA0", "uDDA1", "uDDA3", "uDDA4", "uDDA5", "uDDA6", "uDDA7",
        "uDDA8", "uDDA9", "uDDAA", "uDDAB", "uDDAC", "uDDAD", "uDDAE",
        "uDDAF", "uDDB0", "uDDB1", "uDDB3", "uDDB4", "uDDB5", "uDDB6",
        "uDDB7", "uDDB8", "uDDB9", "uDDBB", "uDDBC" },
    uD803 |->
      {
        "uDC80", "uDC81", "uDC82", "uDC83", "uDC84", "uDC85", "uDC86",
        "uDC87", "uDC88", "uDC89", "uDC8A", "uDC8B", "uDC8C", "uDC8D",
        "uDC8E", "uDC8F", "uDC90", "uDC91", "uDC92", "uDC93", "uDC94",
        "uDC95", "uDC96", "uDC97", "uDC98", "uDC99", "uDC9A", "uDC9B",
        "uDC9C", "uDC9D", "uDC9E", "uDC9F", "uDCA0", "uDCA1", "uDCA2",
        "uDCA3", "uDCA4", "uDCA5", "uDCA6", "uDCA7", "uDCA8", "uDCA9",
        "uDCAA", "uDCAB", "uDCAC", "uDCAD", "uDCAE", "uDCAF", "uDCB0",
        "uDCB1", "uDCB2", "uDCC0", "uDCC1", "uDCC2", "uDCC3", "uDCC4",
        "uDCC5", "uDCC6", "uDCC7", "uDCC8", "uDCC9", "uDCCA", "uDCCB",
        "uDCCC", "uDCCD", "uDCCE", "uDCCF", "uDCD0", "uDCD1", "uDCD2",
        "uDCD3", "uDCD4", "uDCD5", "uDCD6", "uDCD7", "uDCD8", "uDCD9",
        "uDCDA", "uDCDB", "uDCDC", "uDCDD", "uDCDE", "uDCDF", "uDCE0",
        "uDCE1", "uDCE2", "uDCE3", "uDCE4", "uDCE5", "uDCE6", "uDCE7",
        "uDCE8", "uDCE9", "uDCEA", "uDCEB", "uDCEC", "uDCED", "uDCEE",
        "uDCEF", "uDCF0", "uDCF1", "uDCF2", "uDD50", "uDD51", "uDD52",
        "uDD53", "uDD54", "uDD55", "uDD56", "uDD57", "uDD58", "uDD59",
        "uDD5A", "uDD5B", "uDD5C", "uDD5D", "uDD5E", "uDD5F", "uDD60",
        "uDD61", "uDD62", "uDD63", "uDD64", "uDD65", "uDD70", "uDD71",
        "uDD72", "uDD73", "uDD74", "uDD75", "uDD76", "uDD77", "uDD78",
        "uDD79", "uDD7A", "uDD7B", "uDD7C", "uDD7D", "uDD7E", "uDD7F",
        "uDD80", "uDD81", "uDD82", "uDD83", "uDD84", "uDD85" },
    uD806 |->
      {
        "uDCA0", "uDCA1", "uDCA2", "uDCA3", "uDCA4", "uDCA5", "uDCA6",
        "uDCA7", "uDCA8", "uDCA9", "uDCAA", "uDCAB", "uDCAC", "uDCAD",
        "uDCAE", "uDCAF", "uDCB0", "uDCB1", "uDCB2", "uDCB3", "uDCB4",
        "uDCB5", "uDCB6", "uDCB7", "uDCB8", "uDCB9", "uDCBA", "uDCBB",
        "uDCBC", "uDCBD", "uDCBE", "uDCBF", "uDCC0", "uDCC1", "uDCC2",
        "uDCC3", "uDCC4", "uDCC5", "uDCC6", "uDCC7", "uDCC8", "uDCC9",
        "uDCCA", "uDCCB", "uDCCC", "uDCCD", "uDCCE", "uDCCF", "uDCD0",
        "uDCD1", "uDCD2", "uDCD3", "uDCD4", "uDCD5", "uDCD6", "uDCD7",
        "uDCD8", "uDCD9", "uDCDA", "uDCDB", "uDCDC", "uDCDD", "uDCDE",
        "uDCDF" },
    uD81B |->
      {
        "uDE40", "uDE41", "uDE42", "uDE43", "uDE44", "uDE45", "uDE46",
        "uDE47", "uDE48", "uDE49", "uDE4A", "uDE4B", "uDE4C", "uDE4D",
        "uDE4E", "uDE4F", "uDE50", "uDE51", "uDE52", "uDE53", "uDE54",
        "uDE55", "uDE56", "uDE57", "uDE58", "uDE59", "uDE5A", "uDE5B",
        "uDE5C", "uDE5D", "uDE5E", "uDE5F", "uDE60", "uDE61", "uDE62",
        "uDE63", "uDE64", "uDE65", "uDE66", "uDE67", "uDE68", "uDE69",
        "uDE6A", "uDE6B", "uDE6C", "uDE6D", "uDE6E", "uDE6F", "uDE70",
        "uDE71", "uDE72", "uDE73", "uDE74", "uDE75", "uDE76", "uDE77",
        "uDE78", "uDE79", "uDE7A", "uDE7B", "uDE7C", "uDE7D", "uDE7E",
        "uDE7F", "uDEA0", "uDEA1", "uDEA2", "uDEA3", "uDEA4", "uDEA5",
        "uDEA6", "uDEA7", "uDEA8", "uDEA9", "uDEAA", "uDEAB", "uDEAC",
        "uDEAD", "uDEAE", "uDEAF", "uDEB0", "uDEB1", "uDEB2", "uDEB3",
        "uDEB4", "uDEB5", "uDEB6", "uDEB7", "uDEB8", "uDEBB", "uDEBC",
        "uDEBD", "uDEBE", "uDEBF", "uDEC0", "uDEC1", "uDEC2", "uDEC3",
        "uDEC4", "uDEC5", "uDEC6", "uDEC7", "uDEC8", "uDEC9", "uDECA",
        "uDECB", "uDECC", "uDECD", "uDECE", "uDECF", "uDED0", "uDED1",
        "uDED2", "uDED3" },
    uD835 |->
      {
        "uDC00", "uDC01", "uDC02", "uDC03", "uDC04", "uDC05", "uDC06",
        "uDC07", "uDC08", "uDC09", "uDC0A", "uDC0B", "uDC0C", "uDC0D",
        "uDC0E", "uDC0F", "uDC10", "uDC11", "uDC12", "uDC13", "uDC14",
        "uDC15", "uDC16", "uDC17", "uDC18", "uDC19", "uDC1A", "uDC1B",
        "uDC1C", "uDC1D", "uDC1E", "uDC1F", "uDC20", "uDC21", "uDC22",
        "uDC23", "uDC24", "uDC25", "uDC26", "uDC27", "uDC28", "uDC29",
        "uDC2A", "uDC2B", "uDC2C", "uDC2D", "uDC2E", "uDC2F", "uDC30",
        "uDC31", "uDC32", "uDC33", "uDC34", "uDC35", "uDC36", "uDC37",
        "uDC38", "uDC39", "uDC3A", "uDC3B", "uDC3C", "uDC3D", "uDC3E",
        "uDC3F", "uDC40", "uDC41", "uDC42", "uDC43", "uDC44", "uDC45",
        "uDC46", "uDC47", "uDC48", "uDC49", "uDC4A", "uDC4B", "uDC4C",
        "uDC4D", "uDC4E", "uDC4F", "uDC50", "uDC51", "uDC52", "uDC53",
        "uDC54", "uDC56", "uDC57", "uDC58", "uDC59", "uDC5A", "uDC5B",
        "uDC5C", "uDC5D", "uDC5E", "uDC5F", "uDC60", "uDC61", "uDC62",
        "uDC63", "uDC64", "uDC65", "uDC66", "uDC67", "uDC68", "uDC69",
        "uDC6A", "uDC6B", "uDC6C", "uDC6D", "uDC6E", "uDC6F", "uDC70",
        "uDC71", "uDC72", "uDC73", "uDC74", "uDC75", "uDC76", "uDC77",
        "uDC78", "uDC79", "uDC7A", "uDC7B", "uDC7C", "uDC7D", "uDC7E",
        "uDC7F", "uDC80", "uDC81", "uDC82", "uDC83", "uDC84", "uDC85",
        "uDC86", "uDC87", "uDC88", "uDC89", "uDC8A", "uDC8B", "uDC8C",
        "uDC8D", "uDC8E", "uDC8F", "uDC90", "uDC91", "uDC92", "uDC93",
        "uDC94", "uDC95", "uDC96", "uDC97", "uDC98", "uDC99", "uDC9A",
        "uDC9B", "uDC9C", "uDC9E", "uDC9F", "uDCA2", "uDCA5", "uDCA6",
        "uDCA9", "uDCAA", "uDCAB", "uDCAC", "uDCAE", "uDCAF", "uDCB0",
        "uDCB1", "uDCB2", "uDCB3", "uDCB4", "uDCB5", "uDCB6", "uDCB7",
        "uDCB8", "uDCB9", "uDCBB", "uDCBD", "uDCBE", "uDCBF", "uDCC0",
        "uDCC1", "uDCC2", "uDCC3", "uDCC5", "uDCC6", "uDCC7", "uDCC8",
        "uDCC9", "uDCCA", "uDCCB", "uDCCC", "uDCCD", "uDCCE", "uDCCF",
        "uDCD0", "uDCD1", "uDCD2", "uDCD3", "uDCD4", "uDCD5", "uDCD6",
        "uDCD7", "uDCD8", "uDCD9", "uDCDA", "uDCDB", "uDCDC", "uDCDD",
        "uDCDE", "uDCDF", "uDCE0", "uDCE1", "uDCE2", "uDCE3", "uDCE4",
        "uDCE5", "uDCE6", "uDCE7", "uDCE8", "uDCE9", "uDCEA", "uDCEB",
        "uDCEC", "uDCED", "uDCEE", "uDCEF", "uDCF0", "uDCF1", "uDCF2",
        "uDCF3", "uDCF4", "uDCF5", "uDCF6", "uDCF7", "uDCF8", "uDCF9",
        "uDCFA", "uDCFB", "uDCFC", "uDCFD", "uDCFE", "uDCFF", "uDD00",
        "uDD01", "uDD02", "uDD03", "uDD04", "uDD05", "uDD07", "uDD08",
        "uDD09", "uDD0A", "uDD0D", "uDD0E", "uDD0F", "uDD10", "uDD11",
        "uDD12", "uDD13", "uDD14", "uDD16", "uDD17", "uDD18", "uDD19",
        "uDD1A", "uDD1B", "uDD1C", "uDD1E", "uDD1F", "uDD20", "uDD21",
        "uDD22", "uDD23", "uDD24", "uDD25", "uDD26", "uDD27", "uDD28",
        "uDD29", "uDD2A", "uDD2B", "uDD2C", "uDD2D", "uDD2E", "uDD2F",
        "uDD30", "uDD31", "uDD32", "uDD33", "uDD34", "uDD35", "uDD36",
        "uDD37", "uDD38", "uDD39", "uDD3B", "uDD3C", "uDD3D", "uDD3E",
        "uDD40", "uDD41", "uDD42", "uDD43", "uDD44", "uDD46", "uDD4A",
        "uDD4B", "uDD4C", "uDD4D", "uDD4E", "uDD4F", "uDD50", "uDD52",
        "uDD53", "uDD54", "uDD55", "uDD56", "uDD57", "uDD58", "uDD59",
        "uDD5A", "uDD5B", "uDD5C", "uDD5D", "uDD5E", "uDD5F", "uDD60",
        "uDD61", "uDD62", "uDD63", "uDD64", "uDD65", "uDD66", "uDD67",
        "uDD68", "uDD69", "uDD6A", "uDD6B", "uDD6C", "uDD6D", "uDD6E",
        "uDD6F", "uDD70", "uDD71", "uDD72", "uDD73", "uDD74", "uDD75",
        "uDD76", "uDD77", "uDD78", "uDD79", "uDD7A", "uDD7B", "uDD7C",
        "uDD7D", "uDD7E", "uDD7F", "uDD80", "uDD81", "uDD82", "uDD83",
        "uDD84", "uDD85", "uDD86", "uDD87", "uDD88", "uDD89", "uDD8A",
        "uDD8B", "uDD8C", "uDD8D", "uDD8E", "uDD8F", "uDD90", "uDD91",
        "uDD92", "uDD93", "uDD94", "uDD95", "uDD96", "uDD97", "uDD98",
        "uDD99", "uDD9A", "uDD9B", "uDD9C", "uDD9D", "uDD9E", "uDD9F",
        "uDDA0", "uDDA1", "uDDA2", "uDDA3", "uDDA4", "uDDA5", "uDDA6",
        "uDDA7", "uDDA8", "uDDA9", "uDDAA", "uDDAB", "uDDAC", "uDDAD",
        "uDDAE", "uDDAF", "uDDB0", "uDDB1", "uDDB2", "uDDB3", "uDDB4",
        "uDDB5", "uDDB6", "uDDB7", "uDDB8", "uDDB9", "uDDBA", "uDDBB",
        "uDDBC", "uDDBD", "uDDBE", "uDDBF", "uDDC0", "uDDC1", "uDDC2",
        "uDDC3", "uDDC4", "uDDC5", "uDDC6", "uDDC7", "uDDC8", "uDDC9",
        "uDDCA", "uDDCB", "uDDCC", "uDDCD", "uDDCE", "uDDCF", "uDDD0",
        "uDDD1", "uDDD2", "uDDD3", "uDDD4", "uDDD5", "uDDD6", "uDDD7",
        "uDDD8", "uDDD9", "uDDDA", "uDDDB", "uDDDC", "uDDDD", "uDDDE",
        "uDDDF", "uDDE0", "uDDE1", "uDDE2", "uDDE3", "uDDE4", "uDDE5",
        "uDDE6", "uDDE7", "uDDE8", "uDDE9", "uDDEA", "uDDEB", "uDDEC",
        "uDDED", "uDDEE", "uDDEF", "uDDF0", "uDDF1", "uDDF2", "uDDF3",
        "uDDF4", "uDDF5", "uDDF6", "uDDF7", "uDDF8", "uDDF9", "uDDFA",
        "uDDFB", "uDDFC", "uDDFD", "uDDFE", "uDDFF", "uDE00", "uDE01",
        "uDE02", "uDE03", "uDE04", "uDE05", "uDE06", "uDE07", "uDE08",
        "uDE09", "uDE0A", "uDE0B", "uDE0C", "uDE0D", "uDE0E", "uDE0F",
        "uDE10", "uDE11", "uDE12", "uDE13", "uDE14", "uDE15", "uDE16",
        "uDE17", "uDE18", "uDE19", "uDE1A", "uDE1B", "uDE1C", "uDE1D",
        "uDE1E", "uDE1F", "uDE20", "uDE21", "uDE22", "uDE23", "uDE24",
        "uDE25", "uDE26", "uDE27", "uDE28", "uDE29", "uDE2A", "uDE2B",
        "uDE2C", "uDE2D", "uDE2E", "uDE2F", "uDE30", "uDE31", "uDE32",
        "uDE33", "uDE34", "uDE35", "uDE36", "uDE37", "uDE38", "uDE39",
        "uDE3A", "uDE3B", "uDE3C", "uDE3D", "uDE3E", "uDE3F", "uDE40",
        "uDE41", "uDE42", "uDE43", "uDE44", "uDE45", "uDE46", "uDE47",
        "uDE48", "uDE49", "uDE4A", "uDE4B", "uDE4C", "uDE4D", "uDE4E",
        "uDE4F", "uDE50", "uDE51", "uDE52", "uDE53", "uDE54", "uDE55",
        "uDE56", "uDE57", "uDE58", "uDE59", "uDE5A", "uDE5B", "uDE5C",
        "uDE5D", "uDE5E", "uDE5F", "uDE60", "uDE61", "uDE62", "uDE63",
        "uDE64", "uDE65", "uDE66", "uDE67", "uDE68", "uDE69", "uDE6A",
        "uDE6B", "uDE6C", "uDE6D", "uDE6E", "uDE6F", "uDE70", "uDE71",
        "uDE72", "uDE73", "uDE74", "uDE75", "uDE76", "uDE77", "uDE78",
        "uDE79", "uDE7A", "uDE7B", "uDE7C", "uDE7D", "uDE7E", "uDE7F",
        "uDE80", "uDE81", "uDE82", "uDE83", "uDE84", "uDE85", "uDE86",
        "uDE87", "uDE88", "uDE89", "uDE8A", "uDE8B", "uDE8C", "uDE8D",
        "uDE8E", "uDE8F", "uDE90", "uDE91", "uDE92", "uDE93", "uDE94",
        "uDE95", "uDE96", "uDE97", "uDE98", "uDE99", "uDE9A", "uDE9B",
        "uDE9C", "uDE9D", "uDE9E", "uDE9F", "uDEA0", "uDEA1", "uDEA2",
        "uDEA3", "uDEA4", "uDEA5", "uDEA8", "uDEA9", "uDEAA", "uDEAB",
        "uDEAC", "uDEAD", "uDEAE", "uDEAF", "uDEB0", "uDEB1", "uDEB2",
        "uDEB3", "uDEB4", "uDEB5", "uDEB6", "uDEB7", "uDEB8", "uDEB9",
        "uDEBA", "uDEBB", "uDEBC", "uDEBD", "uDEBE", "uDEBF", "uDEC0",
        "uDEC2", "uDEC3", "uDEC4", "uDEC5", "uDEC6", "uDEC7", "uDEC8",
        "uDEC9", "uDECA", "uDECB", "uDECC", "uDECD", "uDECE", "uDECF",
        "uDED0", "uDED1", "uDED2", "uDED3", "uDED4", "uDED5", "uDED6",
        "uDED7", "uDED8", "uDED9", "uDEDA", "uDEDC", "uDEDD", "uDEDE",
        "uDEDF", "uDEE0", "uDEE1", "uDEE2", "uDEE3", "uDEE4", "uDEE5",
        "uDEE6", "uDEE7", "uDEE8", "uDEE9", "uDEEA", "uDEEB", "uDEEC",
        "uDEED", "uDEEE", "uDEEF", "uDEF0", "uDEF1", "uDEF2", "uDEF3",
        "uDEF4", "uDEF5", "uDEF6", "uDEF7", "uDEF8", "uDEF9", "uDEFA",
        "uDEFC", "uDEFD", "uDEFE", "uDEFF", "uDF00", "uDF01", "uDF02",
        "uDF03", "uDF04", "uDF05", "uDF06", "uDF07", "uDF08", "uDF09",
        "uDF0A", "uDF0B", "uDF0C", "uDF0D", "uDF0E", "uDF0F", "uDF10",
        "uDF11", "uDF12", "uDF13", "uDF14", "uDF16", "uDF17", "uDF18",
        "uDF19", "uDF1A", "uDF1B", "uDF1C", "uDF1D", "uDF1E", "uDF1F",
        "uDF20", "uDF21", "uDF22", "uDF23", "uDF24", "uDF25", "uDF26",
        "uDF27", "uDF28", "uDF29", "uDF2A", "uDF2B", "uDF2C", "uDF2D",
        "uDF2E", "uDF2F", "uDF30", "uDF31", "uDF32", "uDF33", "uDF34",
        "uDF36", "uDF37", "uDF38", "uDF39", "uDF3A", "uDF3B", "uDF3C",
        "uDF3D", "uDF3E", "uDF3F", "uDF40", "uDF41", "uDF42", "uDF43",
        "uDF44", "uDF45", "uDF46", "uDF47", "uDF48", "uDF49", "uDF4A",
        "uDF4B", "uDF4C", "uDF4D", "uDF4E", "uDF50", "uDF51", "uDF52",
        "uDF53", "uDF54", "uDF55", "uDF56", "uDF57", "uDF58", "uDF59",
        "uDF5A", "uDF5B", "uDF5C", "uDF5D", "uDF5E", "uDF5F", "uDF60",
        "uDF61", "uDF62", "uDF63", "uDF64", "uDF65", "uDF66", "uDF67",
        "uDF68", "uDF69", "uDF6A", "uDF6B", "uDF6C", "uDF6D", "uDF6E",
        "uDF70", "uDF71", "uDF72", "uDF73", "uDF74", "uDF75", "uDF76",
        "uDF77", "uDF78", "uDF79", "uDF7A", "uDF7B", "uDF7C", "uDF7D",
        "uDF7E", "uDF7F", "uDF80", "uDF81", "uDF82", "uDF83", "uDF84",
        "uDF85", "uDF86", "uDF87", "uDF88", "uDF8A", "uDF8B", "uDF8C",
        "uDF8D", "uDF8E", "uDF8F", "uDF90", "uDF91", "uDF92", "uDF93",
        "uDF94", "uDF95", "uDF96", "uDF97", "uDF98", "uDF99", "uDF9A",
        "uDF9B", "uDF9C", "uDF9D", "uDF9E", "uDF9F", "uDFA0", "uDFA1",
        "uDFA2", "uDFA3", "uDFA4", "uDFA5", "uDFA6", "uDFA7", "uDFA8",
        "uDFAA", "uDFAB", "uDFAC", "uDFAD", "uDFAE", "uDFAF", "uDFB0",
        "uDFB1", "uDFB2", "uDFB3", "uDFB4", "uDFB5", "uDFB6", "uDFB7",
        "uDFB8", "uDFB9", "uDFBA", "uDFBB", "uDFBC", "uDFBD", "uDFBE",
        "uDFBF", "uDFC0", "uDFC1", "uDFC2", "uDFC4", "uDFC5", "uDFC6",
        "uDFC7", "uDFC8", "uDFC9", "uDFCA", "uDFCB" },
    uD837 |->
      {
        "uDF00", "uDF01", "uDF02", "uDF03", "uDF04", "uDF05", "uDF06",
        "uDF07", "uDF08", "uDF09", "uDF0B", "uDF0C", "uDF0D", "uDF0E",
        "uDF0F", "uDF10", "uDF11", "uDF12", "uDF13", "uDF14", "uDF15",
        "uDF16", "uDF17", "uDF18", "uDF19", "uDF1A", "uDF1B", "uDF1C",
        "uDF1D", "uDF1E", "uDF25", "uDF26", "uDF27", "uDF28", "uDF29",
        "uDF2A" },
    uD83A |->
      {
        "uDD00", "uDD01", "uDD02", "uDD03", "uDD04", "uDD05", "uDD06",
        "uDD07", "uDD08", "uDD09", "uDD0A", "uDD0B", "uDD0C", "uDD0D",
        "uDD0E", "uDD0F", "uDD10", "uDD11", "uDD12", "uDD13", "uDD14",
        "uDD15", "uDD16", "uDD17", "uDD18", "uDD19", "uDD1A", "uDD1B",
        "uDD1C", "uDD1D", "uDD1E", "uDD1F", "uDD20", "uDD21", "uDD22",
        "uDD23", "uDD24", "uDD25", "uDD26", "uDD27", "uDD28", "uDD29",
        "uDD2A", "uDD2B", "uDD2C", "uDD2D", "uDD2E", "uDD2F", "uDD30",
        "uDD31", "uDD32", "uDD33", "uDD34", "uDD35", "uDD36", "uDD37",
        "uDD38", "uDD39", "uDD3A", "uDD3B", "uDD3C", "uDD3D", "uDD3E",
        "uDD3F", "uDD40", "uDD41", "uDD42", "uDD43" },
    uD83C |->
      {
        "uDD30", "uDD31", "uDD32", "uDD33", "uDD34", "uDD35", "uDD36",
        "uDD37", "uDD38", "uDD39", "uDD3A", "uDD3B", "uDD3C", "uDD3D",
        "uDD3E", "uDD3F", "uDD40", "uDD41", "uDD42", "uDD43", "uDD44",
        "uDD45", "uDD46", "uDD47", "uDD48", "uDD49", "uDD50", "uDD51",
        "uDD52", "uDD53", "uDD54", "uDD55", "uDD56", "uDD57", "uDD58",
        "uDD59", "uDD5A", "uDD5B", "uDD5C", "uDD5D", "uDD5E", "uDD5F",
        "uDD60", "uDD61", "uDD62", "uDD63", "uDD64", "uDD65", "uDD66",
        "uDD67", "uDD68", "uDD69", "uDD70", "uDD71", "uDD72", "uDD73",
        "uDD74", "uDD75", "uDD76", "uDD77", "uDD78", "uDD79", "uDD7A",
        "uDD7B", "uDD7C", "uDD7D", "uDD7E", "uDD7F", "uDD80", "uDD81",
        "uDD82", "uDD83", "uDD84", "uDD85", "uDD86", "uDD87", "uDD88",
        "uDD89" } ]

\* the code units of the Basic Multilingual Plane that have a lower-case form
HasLowerBMP == DOMAIN LowerOfBMP

\* the lead surrogates of the letters that have a lower-case form
HasLowerAstral == DOMAIN LowerOfAstral

\* String.prototype.toLowerCase of the string of the one code unit c
ToLowerChar(c) ==
  IF \E i \in 1..Len(UpperChars) : UpperChars[i] = c
    THEN <<LowerChars[CHOOSE i \in 1..Len(UpperChars) : UpperChars[i] = c]>>
  ELSE IF c = "u0130" THEN <<"i", "u0307">>
  ELSE IF c \in HasLowerBMP THEN <<LowerOfBMP[c]>>
  ELSE <<c>>

\* whether the code units hi, lo are a surrogate pair listed in the table T
AstralIn(T, hi, lo) == hi \in DOMAIN T /\ lo \in T[hi]

\* whether s[1..j] ends with a cased letter followed by case-ignorable
\* characters only
RECURSIVE CasedBefore(_, _)
CasedBefore(s, j) ==
  IF j < 1 THEN FALSE
  ELSE IF j >= 2 /\ AstralIn(CaseIgnorableAstral, s[j - 1], s[j])
    THEN CasedBefore(s, j - 2)
  ELSE IF s[j] \in CaseIgnorableBMP THEN CasedBefore(s, j - 1)
  ELSE \/ s[j] \in CasedBMP
       \/ j >= 2 /\ AstralIn(CasedAstral, s[j - 1], s[j])

\* whether s from position j on begins with case-ignorable characters
\* followed by a cased letter
RECURSIVE CasedAfter(_, _)
CasedAfter(s, j) ==
  IF j > Len(s) THEN FALSE
  ELSE IF j < Len(s) /\ AstralIn(CaseIgnorableAstral, s[j], s[j + 1])
    THEN CasedAfter(s, j + 2)
  ELSE IF s[j] \in CaseIgnorableBMP THEN CasedAfter(s, j + 1)
  ELSE \/ s[j] \in CasedBMP
       \/ j < Len(s) /\ AstralIn(CasedAstral, s[j], s[j + 1])

\* the Final_Sigma condition on the capital sigma at position i of s
FinalSigma(s, i) == CasedBefore(s, i - 1) /\ ~CasedAfter(s, i + 1)

\* the lower case of the code unit at position i of s, in its context
LowerAt(s, i) ==
  IF s[i] = "u03A3" /\ FinalSigma(s, i) THEN <<"u03C2">>
  ELSE IF /\ i >= 2
          /\ s[i - 1] \in HasLowerAstral
          /\ s[i] \in DOMAIN LowerOfAstral[s[i - 1]]
    THEN <<LowerOfAstral[s[i - 1]][s[i]]>>
  ELSE ToLowerChar(s[i])

RECURSIVE LowerFrom(_, _)
LowerFrom(s, i) ==
  IF i > Len(s) THEN <<>> ELSE LowerAt(s, i) \o LowerFrom(s, i + 1)

\* a toLowerCase that leaves the string as it is (a case-sensitive match)
toLowerCase_identity(s) == s

\* String.prototype.toLowerCase
toLowerCase(s) == LowerFrom(s, 1)

\* String.prototype.indexOf(k): the first 0-based position of k in s, or -1
indexOf(s, k) ==
  LET hits == {i \in 0..(Len(s) - Len(k)) : SubSeq(s, i + 1, i + Len(k)) = k}
  IN  IF hits = {} THEN -1 ELSE SetMin(hits)

\* Array.prototype.indexOf(x): the first 0-based position of x in arr, or -1
arrayIndexOf(arr, x) ==
  LET hits == {i \in 1..Len(arr) : arr[i] = x}
  IN  IF hits = {} THEN -1 ELSE SetMin(hits) - 1

\* s.split('.').pop(): the part after the last '.', the whole of s without one
splitPop(s) ==
  LET dots == {i \in 1..Len(s) : s[i] = "."}
  IN  IF dots = {} THEN s ELSE SubSeq(s, SetMax(dots) + 1, Len(s))

-----------------------------------------------------------------------------
(* The category table of organizeDrive, in declaration order (the order    *)
(* for...in visits the keys).  hasKeywords / hasExtensions say whether the  *)
(* property is present on the category object.                             *)

categories ==
  <<
    [ name |-> "01_uBC30uD3ECuC0ACuC774uD2B8_uC18CuC2A4uCF54uB4DC",
      hasKeywords |-> TRUE,
      keywords |-> <<<<"a", "l", "p", "h", "a">>,
                     <<"e", "n", "g", "i", "n", "e">>,
                     <<"y", "j", "t", "a", "x">>,
                     <<"t", "a", "x", " ", "m", "a", "s", "t", "e", "r">>,
                     <<"w", "o", "n", "w", "i", "l", "l">>,
                     <<"uC81C", "uC548", "uC11C">>,
                     <<"f", "o", "u", "n", "d", "e", "r", "o", "n", "e">>,
                     <<"uD30C", "uC6B4", "uB354", "uC6D0">>,
                     <<"uD1B5", "uD569", "d", "b">>,
                     <<"d", "b", "uC790", "uB3D9", "uD654">>,
                     <<"n", "a", "v", "e", "r", "-", "b", "l", "o", "g">>,
                     <<"uBE14", "uB85C", "uADF8", "uB9C8", "uC2A4", "uD130">>,
                     <<"i", "n", "d", "e", "x", ".", "h", "t", "m", "l">>,
                     <<"a", "l", "p", "h", "a", "-", "v", "4">>>>,
      hasExtensions |-> FALSE,
      extensions |-> <<>> ],
    [ name |-> "02_uC1FCuCE20uD329uD1A0uB9AC",
      hasKeywords |-> TRUE,
      keywords |-> <<<<"s", "h", "o", "r", "t", "s">>,
                     <<"f", "a", "c", "t", "o", "r", "y">>,
                     <<"uC1FC", "uCE20">>,
                     <<"uC601", "uC0C1", "uC81C", "uC791">>,
                     <<"r", "e", "n", "d", "e", "r">>,
                     <<"t", "t", "s">>,
                     <<"s", "u", "b", "t", "i", "t", "l", "e">>,
                     <<"s", "e", "r", "v", "e", "r", ".", "p", "y">>>>,
      hasExtensions |-> FALSE,
      extensions |-> <<>> ],
    [ name |-> "03_uD504uB79CuCC28uC774uC988_uC790uB8CC",
      hasKeywords |-> TRUE,
      keywords |-> <<<<"uD504", "uB79C", "uCC28", "uC774", "uC988">>,
                     <<"f", "r", "a", "n", "c", "h", "i", "s", "e">>,
                     <<"uCC3D", "uC5C5">>,
                     <<"uAC00", "uB9F9">>,
                     <<"uBCF8", "uC0AC">>,
                     <<"uC0C1", "uAD8C">>,
                     <<"uCEE8", "uC124", "uD305">>,
                     <<"uC591", "uB3C4">>,
                     <<"uB9E4", "uAC01">>,
                     <<"uC778", "uD14C", "uB9AC", "uC5B4">>,
                     <<"uC784", "uB300">>,
                     <<"uB9AC", "uC2A4">>,
                     <<"uB80C", "uD0C8">>>>,
      hasExtensions |-> FALSE,
      extensions |-> <<>> ],
    [ name |-> "04_uC138uBB34_uD68CuACC4",
      hasKeywords |-> TRUE,
      keywords |-> <<<<"uC138", "uBB34">>,
                     <<"uC138", "uAE08">>,
                     <<"t", "a", "x">>,
                     <<"uBD80", "uAC00", "uC138">>,
                     <<"uB9E4", "uC785">>,
                     <<"uB9E4", "uCD9C">>,
                     <<"uC758", "uC81C">>,
                     <<"uC808", "uC138">>,
                     <<"uD68C", "uACC4">>,
                     <<"uAD6D", "uC138">>,
                     <<"n", "t", "s">>,
                     <<"uC0AC", "uC5C5", "uC790">>,
                     <<"uBD80", "uAC00", "uAC00", "uCE58">>>>,
      hasExtensions |-> FALSE,
      extensions |-> <<>> ],
    [ name |-> "05_uB9C8uCF00uD305_uC601uC5C5",
      hasKeywords |-> TRUE,
      keywords |-> <<<<"uB9C8", "uCF00", "uD305">>,
                     <<"m", "a", "r", "k", "e", "t", "i", "n", "g">>,
                     <<"uC601", "uC5C5">>,
                     <<"uBE14", "uB85C", "uADF8">>,
                     <<"b", "l", "o", "g">>,
                     <<"s", "e", "o">>,
                     <<"uD0A4", "uC6CC", "uB4DC">>,
                     <<"uAD11", "uACE0">>,
                     <<"s", "n", "s">>,
                     <<"uD64D", "uBCF4">>,
                     <<"c", "t", "a">>,
                     <<"uD3EC", "uC2A4", "uD305">>>>,
      hasExtensions |-> FALSE,
      extensions |-> <<>> ],
    [ name |-> "06_uACE0uAC1DDB_CRM",
      hasKeywords |-> TRUE,
      keywords |-> <<<<"uACE0", "uAC1D">>,
                     <<"c", "u", "s", "t", "o", "m", "e", "r">>,
                     <<"c", "r", "m">>,
                     <<"uC0C1", "uB2F4">>,
                     <<"uC6D0", "uC70C">>,
                     <<"w", "o", "n", "w", "i", "l", "l">>,
                     <<"d", "b", "uC790", "uB3D9", "uD654">>,
                     <<"uD1B5", "uD569", "d", "b">>,
                     <<"uBB38", "uC790">>,
                     <<"a", "l", "i", "g", "o">>,
                     <<"s", "m", "s">>>>,
      hasExtensions |-> FALSE,
      extensions |-> <<>> ],
    [ name |-> "07_API_uC124uC815",
      hasKeywords |-> TRUE,
      keywords |-> <<<<"a", "p", "i">>,
                     <<"k", "e", "y">>,
                     <<"t", "o", "k", "e", "n">>,
                     <<"e", "n", "v">>,
                     <<"c", "o", "n", "f", "i", "g">>,
                     <<"uC124", "uC815">>,
                     <<"c", "r", "e", "d", "e", "n", "t", "i", "a", "l">>,
                     <<"o", "a", "u", "t", "h">>,
                     <<"g", "e", "m", "i", "n", "i">>,
                     <<"c", "l", "a", "u", "d", "e">>,
                     <<"p", "e", "r", "p", "l", "e", "x", "i", "t", "y">>,
                     <<"o", "p", "e", "n", "c", "l", "a", "w">>>>,
      hasExtensions |-> FALSE,
      extensions |-> <<>> ],
    [ name |-> "08_uC774uBBF8uC9C0_uBBF8uB514uC5B4",
      hasKeywords |-> FALSE,
      keywords |-> <<>>,
      hasExtensions |-> TRUE,
      extensions |-> <<<<"p", "n", "g">>, <<"j", "p", "g">>, <<"j", "p", "e", "g">>, <<"g", "i", "f">>, <<"s", "v", "g">>, <<"m", "p", "4">>, <<"m", "p", "3">>, <<"w", "a", "v">>, <<"w", "e", "b", "p">>, <<"i", "c", "o">>, <<"b", "m", "p">>, <<"a", "v", "i">>, <<"m", "o", "v">>>> ],
    [ name |-> "09_uBB38uC11C_uAE30uD68D",
      hasKeywords |-> TRUE,
      keywords |-> <<<<"uAE30", "uD68D">>,
                     <<"uC2A4", "uD399">>,
                     <<"s", "p", "e", "c">>,
                     <<"p", "l", "a", "n">>,
                     <<"r", "e", "a", "d", "m", "e">>,
                     <<"h", "a", "n", "d", "o", "f", "f">>,
                     <<"uD504", "uB85C", "uC81D", "uD2B8">>,
                     <<"uBA85", "uB839", "uC5B4">>,
                     <<"uC804", "uB2EC">>>>,
      hasExtensions |-> TRUE,
      extensions |-> <<<<"m", "d">>, <<"t", "x", "t">>, <<"p", "d", "f">>, <<"d", "o", "c", "x">>, <<"x", "l", "s", "x">>, <<"p", "p", "t", "x">>, <<"h", "w", "p">>>> ],
    [ name |-> "99_uAE30uD0C0",
      hasKeywords |-> TRUE,
      keywords |-> <<>>,
      hasExtensions |-> FALSE,
      extensions |-> <<>> ]
  >>

\* 'YJ Partners - ' followed by the Korean project-management title
MainFolderName ==
  <<"Y", "J", " ", "P", "a", "r", "t", "n", "e", "r", "s", " ", "-", " ",
    "uD504", "uB85C", "uC81D", "uD2B8", " ", "uAD00", "uB9AC">>

\* '99_' followed by the Korean word for "other": the initial targetCat
DefaultCat == "99_uAE30uD0C0"

CatNames == {categories[i].name : i \in 1..Len(categories)}

\* the extension loop of the file pass: the first category, in declaration
\* order, whose extensions hold ext; DefaultCat when the loop ends unmatched
RECURSIVE ExtensionPass(_, _)
ExtensionPass(i, ext) ==
  IF i > Len(categories) THEN DefaultCat
  ELSE IF categories[i].hasExtensions
          /\ arrayIndexOf(categories[i].extensions, ext) >= 0
         THEN categories[i].name
         ELSE ExtensionPass(i + 1, ext)

\* the inner keyword loop: some keyword of the category occurs in the name
KeywordHit(cat, lname) ==
  \E j \in 1..Len(cat.keywords) : indexOf(lname, toLowerCase(cat.keywords[j])) >= 0

\* a keyword loop in which a later category's match replaces an earlier one's
RECURSIVE KeywordPass_lastWins(_, _)
KeywordPass_lastWins(i, lname) ==
  IF i > Len(categories) THEN DefaultCat
  ELSE LET later == KeywordPass_lastWins(i + 1, lname)
       IN  IF later # DefaultCat THEN later
           ELSE IF categories[i].hasKeywords /\ KeywordHit(categories[i], lname)
                  THEN categories[i].name
                  ELSE DefaultCat

\* the keyword loop: the first category, in declaration order, with a keyword
\* occurring in the lower-cased name; the outer loop breaks as soon as
\* targetCat is no longer DefaultCat
RECURSIVE KeywordPass(_, _)
KeywordPass(i, lname) ==
  IF i > Len(categories) THEN DefaultCat
  ELSE IF ~categories[i].hasKeywords THEN KeywordPass(i + 1, lname)
  ELSE IF KeywordHit(categories[i], lname)
              /\ categories[i].name # DefaultCat
         THEN categories[i].name
         ELSE KeywordPass(i + 1, lname)

\* a file pass that tries the keywords first and the extensions after
FileTargetCat_keywordFirst(name) ==
  LET fileName == toLowerCase(name)
      byKeyword == KeywordPass(1, fileName)
  IN  IF byKeyword = DefaultCat THEN ExtensionPass(1, splitPop(fileName))
                                ELSE byKeyword

\* targetCat of a root file: extension pass, then keyword pass when the
\* extension pass left targetCat at DefaultCat
FileTargetCat(name) ==
  LET fileName == toLowerCase(name)
      ext == splitPop(fileName)
      byExt == ExtensionPass(1, ext)
  IN  IF byExt = DefaultCat THEN KeywordPass(1, fileName) ELSE byExt

\* targetCat of a root folder: keyword pass on the lower-cased name only
FolderTargetCat(name) == KeywordPass(1, toLowerCase(name))

\* a skip test that spares the main folder only
FolderSkipped_mainOnly(name) == name = MainFolderName

\* the two skip tests of the folder pass: the main folder's name, or a name
\* matching /^\d{2}_/
FolderSkipped(name) ==
  \/ name = MainFolderName
  \/ /\ Len(name) >= 3
     /\ name[1] \in Digits
     /\ name[2] \in Digits
     /\ name[3] = "_"

-----------------------------------------------------------------------------
(* The cost widget: rendering.                                             *)

Green == "#22c55e"

Amber == "#f59e0b"

Red == "#ef4444"

\* The values read from the payload and put into the html: a number n, the
\* value of a field the payload does not have, and the not-a-number.
Num(n) == [t |-> "number", v |-> n]

Undefined == [t |-> "undefined", v |-> 0]

NaN == [t |-> "NaN", v |-> 0]

\* Number(x) for a number or undefined
Number(x) == IF x.t = "number" THEN x ELSE NaN

\* x >= n for a number n: undefined is converted to NaN, which compares false
GreaterEq(x, n) == x.t = "number" /\ x.v >= n

\* a bar colour with strict comparisons at the two thresholds
barColor_strict(pct) ==
  IF pct.t = "number" /\ pct.v > 100 THEN Red
  ELSE IF pct.t = "number" /\ pct.v > 80 THEN Amber
  ELSE Green

\* the budget bar's colour, from summary.budget.used_pct
barColor(pct) ==
  IF GreaterEq(pct, 100) THEN Red
  ELSE IF GreaterEq(pct, 80) THEN Amber
  ELSE Green

\* the status dot's colour, from summary.budget.status
statusColor(status) ==
  IF status = "over" THEN Red
  ELSE IF status = "warn" THEN Amber
  ELSE Green

\* the budget bar's width in percent: Math.min(pct, 100), NaN for undefined
fillWidth(pct) ==
  IF pct.t # "number" THEN NaN
  ELSE IF pct.v < 100 THEN pct
  ELSE Num(100)

\* the button's background after a successful refresh
buttonBackground(status) ==
  IF status = "over" THEN "linear-gradient(135deg, #ef4444, #dc2626)"
  ELSE IF status = "warn" THEN "linear-gradient(135deg, #f59e0b, #d97706)"
  ELSE "linear-gradient(135deg, #6366f1, #a855f7)"

\* cards whose status dot is coloured like the bar, whatever status says
renderCards_reconciled(summary, models) ==
  << [ today_krw   |-> Number(summary.today_krw),
       monthly_krw |-> Number(summary.monthly_krw),
       alltime_krw |-> Number(summary.alltime_krw),
       used_pct    |-> summary.used_pct,
       width       |-> fillWidth(summary.used_pct),
       barColor    |-> barColor(summary.used_pct),
       statusColor |-> barColor(summary.used_pct),
       limit_krw   |-> Number(summary.limit_krw),
       showModels  |-> (models = "list") ] >>

\* the cards assembled in html from a summary and a models payload: the won
\* figures of the three cost cards (Number(krw), NaN when the payload has no
\* krw), the percentage printed as it is (undefined when absent), the bar,
\* the status dot, the budget limit, and showModels for the models card,
\* present only for a non-empty models list.  The dollar figures and the
\* exchange rate are left out: the payloads rendered all have them.
renderCards(summary, models) ==
  << [ today_krw   |-> Number(summary.today_krw),
       monthly_krw |-> Number(summary.monthly_krw),
       alltime_krw |-> Number(summary.alltime_krw),
       used_pct    |-> summary.used_pct,
       width       |-> fillWidth(summary.used_pct),
       barColor    |-> barColor(summary.used_pct),
       statusColor |-> statusColor(summary.status),
       limit_krw   |-> Number(summary.limit_krw),
       showModels  |-> (models = "list") ] >>

\* body.innerHTML at mount: the loading notice
LoadingBody == [notice |-> "loading", cards |-> <<>>]

\* body.innerHTML written by the catch branch: the connection-failure notice
\* naming API_BASE, and nothing else
ErrorBody == [notice |-> "error", cards |-> <<>>]

\* body.innerHTML written by a successful refresh
DataBody(summary, models) == [notice |-> "", cards |-> renderCards(summary, models)]

-----------------------------------------------------------------------------
(* The budget card's colours for one summary, taken alone.                 *)

MaxPct == 120

StatusSamples == {"ok", "warn", "over", "unknown"}

IdleRender ==
  /\ rPct = 0
  /\ rStatus = "ok"
  /\ rOut = <<>>
  /\ rBtn = ""

-----------------------------------------------------------------------------
(* The cost widget: toggle, timer and refresh.                             *)
(*                                                                         *)
(* A call of fetchCostData is in flight from its dispatch until it has     *)
(* written the DOM.  Its id is its position in the order of dispatch.  It  *)
(* awaits three times: the two fetches together, the summary's JSON, the   *)
(* models' JSON; what the server answers is chosen when each await ends.   *)
(* Nothing reads the parsed summary before the rest of the try block, after *)
(* the last await: what it holds is drawn there, and lastDone keeps it.     *)

MaxRefresh == 3

MaxInflight == 2

\* a summary payload the try block reads to its end: the objects today,
\* monthly, alltime and budget, the three usd numbers and exchange_rate are
\* there; the krw figures, used_pct, status and limit_krw may each be absent
Summary(today, monthly, alltime, pct, status, limit) ==
  [ readable |-> TRUE, today_krw |-> today, monthly_krw |-> monthly,
    alltime_krw |-> alltime, used_pct |-> pct, status |-> status,
    limit_krw |-> limit ]

\* a summary payload on which the try block throws: an object among today,
\* monthly, alltime and budget is missing (a property of undefined is read),
\* or a usd figure or exchange_rate is (toFixed or toLocaleString of
\* undefined is called); also stands for no summary read
NoSummary ==
  [ readable |-> FALSE, today_krw |-> Undefined, monthly_krw |-> Undefined,
    alltime_krw |-> Undefined, used_pct |-> Undefined, status |-> "undefined",
    limit_krw |-> Undefined ]

\* summary payloads the server may answer with: two with every field the
\* widget reads; a budget without used_pct; an empty budget; a today without
\* krw; and one on which the try block throws
SummarySamples ==
  { Summary(Num(1000), Num(20000), Num(50000), Num(79), "warn", Num(100000)),
    Summary(Num(3000), Num(25000), Num(60000), Num(120), "ok", Num(100000)),
    Summary(Num(1000), Num(1000), Num(1000), Undefined, "over", Num(1)),
    Summary(Num(1000), Num(1000), Num(1000), Undefined, "undefined", Undefined),
    Summary(Undefined, Num(1000), Num(1000), Num(50), "ok", Num(100000)),
    NoSummary }

\* the payload has every field the widget reads
Complete(s) ==
  /\ s.readable
  /\ s.today_krw.t = "number" /\ s.monthly_krw.t = "number"
  /\ s.alltime_krw.t = "number" /\ s.used_pct.t = "number"
  /\ s.limit_krw.t = "number" /\ s.status # "undefined"

\* models payloads: a non-empty list, an empty list, JSON without a models
\* field (an error body, say), or a body that is not JSON
ModelsSamples == {"list", "empty", "absent", "notjson"}

\* what the server answers to the two fetches: unreachable, or two HTTP
\* responses, each with a success status or not
FetchAnswers ==
  {[net |-> FALSE, summaryOk |-> FALSE, modelsOk |-> FALSE]} \cup
  {[net |-> TRUE, summaryOk |-> a, modelsOk |-> b] : a \in BOOLEAN, b \in BOOLEAN}

\* the answers the endpoints may give now: none while they are down (both
\* fetches reject); once they are up, two success statuses, a summary with
\* every field read and a models list; any otherwise
AnswersNow ==
  IF server = "down" THEN {[net |-> FALSE, summaryOk |-> FALSE, modelsOk |-> FALSE]}
  ELSE IF server = "up" THEN {[net |-> TRUE, summaryOk |-> TRUE, modelsOk |-> TRUE]}
  ELSE FetchAnswers

SummariesNow ==
  IF server = "up" THEN {s \in SummarySamples : Complete(s)} ELSE SummarySamples

ModelsNow == IF server = "up" THEN {"list", "empty"} ELSE ModelsSamples

\* lastDone before any call has completed
NoneDone ==
  [any |-> FALSE, net |-> TRUE, summaryOk |-> TRUE, modelsOk |-> TRUE, ok |-> TRUE,
   summary |-> NoSummary]

InitWidget ==
  /\ isOpen = FALSE
  /\ panelVisible = FALSE
  /\ body = LoadingBody
  /\ lastUpdate = "waiting"
  /\ btnBackground = "linear-gradient(135deg, #6366f1, #a855f7)"
  /\ inflight = {[id |-> 1, stage |-> "fetch", modelsOk |-> TRUE]}
  /\ dispatched = <<[by |-> "mount", open |-> FALSE]>>
  /\ lastOk = [id |-> 0, cards |-> <<>>]
  /\ lastDone = NoneDone
  /\ server = "any"

IdleWidget ==
  /\ isOpen = FALSE
  /\ panelVisible = FALSE
  /\ body = LoadingBody
  /\ lastUpdate = "waiting"
  /\ btnBackground = "linear-gradient(135deg, #6366f1, #a855f7)"
  /\ inflight = {}
  /\ dispatched = <<>>
  /\ lastOk = [id |-> 0, cards |-> <<>>]
  /\ lastDone = NoneDone
  /\ server = "any"

-----------------------------------------------------------------------------
(* Classification of one name, taken alone.                                *)

MaxParts == 3

Fragments ==
  { <<"t","a","x">>, <<"T","A","X">>, <<"_","R","E","P","O","R","T">>,
    <<".">>, <<".","p","d","f">>, <<"p","n","g">>,
    <<"a","l","p","h","a">>, <<"u212A","E","Y">> }

RECURSIVE NamesOf(_)
NamesOf(n) ==
  IF n = 0 THEN {<<>>}
  ELSE LET shorter == NamesOf(n - 1)
       IN  shorter \cup {s \o f : s \in shorter, f \in Fragments}

SampleNames == NamesOf(MaxParts) \ {<<>>}

NoTarget == "unclassified"

\* the record of the run before: whether this run was started directly
\* after a completed one, and if so the store that one left
NoPrev == [done |-> FALSE, parents |-> <<>>, mainCreated |-> FALSE, catFolders |-> {}]

IdleClassify ==
  /\ cKind = "file"
  /\ cName = <<>>
  /\ cTarget = NoTarget

IdleDrive ==
  /\ items = <<>>
  /\ parents = <<>>
  /\ mainCreated = FALSE
  /\ catFolders = {}
  /\ pc = "idle"
  /\ runs = 0
  /\ prev = NoPrev
  /\ mainFolder = -1
  /\ catIdx = 0
  /\ createdCats = {}
  /\ rootFiles = <<>>
  /\ rootFolders = <<>>
  /\ cur = 0
  /\ targetCat = DefaultCat
  /\ movedCount = 0
  /\ log = <<>>

InitClassify ==
  /\ cKind \in {"file", "folder"}
  /\ cName \in SampleNames
  /\ cTarget = NoTarget
  /\ IdleDrive /\ IdleWidget /\ IdleRender

ClassifyFile ==
  /\ cKind = "file"
  /\ cTarget = NoTarget
  /\ cTarget' = FileTargetCat(cName)
  /\ UNCHANGED <<cKind, cName, dvars, wvars, rvars>>

ClassifyFolder ==
  /\ cKind = "folder"
  /\ cTarget = NoTarget
  /\ cTarget' = FolderTargetCat(cName)
  /\ UNCHANGED <<cKind, cName, dvars, wvars, rvars>>

NextClassify == ClassifyFile \/ ClassifyFolder

SpecClassify == InitClassify /\ [][NextClassify]_vars

-----------------------------------------------------------------------------
(* organizeDrive on a Drive store.                                         *)
(*                                                                         *)
(* items[i] is the i-th item of the root before the first run, a file or a *)
(* folder with a name; parents[i] is the set of containers holding it:     *)
(* "root" or a category folder (named by its category).  A folder id of 0  *)
(* is the main folder the script itself created, -1 is no folder.  The     *)
(* root's iterators visit the items in the order of their ids; the items   *)
(* are drawn in every order, so every visiting order is covered.           *)

MaxItems == 2

MaxRuns == 2

\* the shapes of root items the store is drawn from
ItemShapes ==
  { [kind |-> "file",   name |-> <<"a","l","p","h","a",".","p","n","g">>],
    [kind |-> "file",   name |-> <<"T","A","X","_","R","E","P","O","R","T">>],
    [kind |-> "file",   name |-> <<"z","z">>],
    [kind |-> "folder", name |-> <<"t","a","x">>],
    [kind |-> "folder", name |-> <<"0","1","_","t","a","x">>],
    [kind |-> "folder", name |-> MainFolderName] }

ItemIds == 1..Len(items)

\* the name of a folder of the root's listing; 0 is the created main folder
FolderNameOf(id) == IF id = 0 THEN MainFolderName ELSE items[id].name

\* ids, ascending, of the members of S: the order an iterator yields them in
RECURSIVE Ascending(_)
Ascending(S) ==
  IF S = {} THEN <<>>
  ELSE LET m == SetMin(S) IN <<m>> \o Ascending(S \ {m})

\* root.getFoldersByName(MainFolderName): the folders of the root so named
MainFoldersInRoot ==
  {i \in ItemIds : /\ items[i].kind = "folder"
                   /\ items[i].name = MainFolderName
                   /\ "root" \in parents[i]}
    \cup (IF mainCreated THEN {0} ELSE {})

InitDrive ==
  /\ \E n \in 1..MaxItems : items \in [1..n -> ItemShapes]
  /\ parents = [i \in 1..Len(items) |-> {"root"}]
  /\ mainCreated = FALSE
  /\ catFolders \in {{}, IF MainFoldersInRoot = {} THEN {} ELSE CatNames}
  /\ pc = "idle"
  /\ runs = 0
  /\ prev = NoPrev
  /\ mainFolder = -1
  /\ catIdx = 0
  /\ createdCats = {}
  /\ rootFiles = <<>>
  /\ rootFolders = <<>>
  /\ cur = 0
  /\ targetCat = DefaultCat
  /\ movedCount = 0
  /\ log = <<>>
  /\ IdleClassify /\ IdleWidget /\ IdleRender

\* a run of organizeDrive starts: const root = DriveApp.getRootFolder()
StartRun ==
  /\ pc \in {"idle", "done", "aborted"}
  /\ runs < MaxRuns
  /\ runs' = runs + 1
  /\ prev' = IF pc = "done"
               THEN [done |-> TRUE, parents |-> parents,
                     mainCreated |-> mainCreated, catFolders |-> catFolders]
               ELSE NoPrev
  /\ pc' = "main"
  /\ mainFolder' = -1
  /\ catIdx' = 0
  /\ createdCats' = {}
  /\ rootFiles' = <<>>
  /\ rootFolders' = <<>>
  /\ cur' = 0
  /\ targetCat' = DefaultCat
  /\ movedCount' = 0
  /\ log' = <<>>
  /\ UNCHANGED <<store, cvars, wvars, rvars>>

\* mainFolder = getOrCreateFolder(root, MainFolderName)
GetMainFolder ==
  /\ pc = "main"
  /\ IF MainFoldersInRoot # {}
       THEN /\ mainFolder' = SetMin(MainFoldersInRoot)
            /\ UNCHANGED mainCreated
       ELSE /\ mainFolder' = 0
            /\ mainCreated' = TRUE
  /\ pc' = "cats"
  /\ UNCHANGED <<items, parents, catFolders, runs, prev, catIdx, createdCats,
                 rootFiles, rootFolders, cur, targetCat, movedCount, log, cvars, wvars, rvars>>

\* an iteration of the category-folder loop that creates the folder without
\* looking for an existing one of that name
GetCategoryFolder_alwaysCreates ==
  /\ pc = "cats"
  /\ catIdx < Len(categories)
  /\ LET catName == categories[catIdx + 1].name
     IN  /\ catFolders' = catFolders \cup {catName}
         /\ createdCats' = createdCats \cup {catName}
         /\ log' = Append(log, [t |-> "folder", name |-> <<>>, cat |-> catName, n |-> 0])
  /\ catIdx' = catIdx + 1
  /\ UNCHANGED <<items, parents, mainCreated, pc, runs, prev, mainFolder,
                 rootFiles, rootFolders, cur, targetCat, movedCount, cvars, wvars, rvars>>

\* an iteration of the category-folder loop that creates no folder, leaving
\* the creation to the first move into the category
GetCategoryFolder_deferred ==
  /\ pc = "cats"
  /\ catIdx < Len(categories)
  /\ catIdx' = catIdx + 1
  /\ UNCHANGED <<items, parents, mainCreated, catFolders, pc, runs, prev, mainFolder,
                 createdCats, rootFiles, rootFolders, cur, targetCat,
                 movedCount, log, cvars, wvars, rvars>>

\* one iteration of the category-folder loop:
\* categories[catName].folder = getOrCreateFolder(mainFolder, catName)
GetCategoryFolder ==
  /\ pc = "cats"
  /\ catIdx < Len(categories)
  /\ LET catName == categories[catIdx + 1].name
     IN  /\ catFolders' = catFolders \cup {catName}
         /\ createdCats' = IF catName \in catFolders
                             THEN createdCats
                             ELSE createdCats \cup {catName}
         /\ log' = Append(log, [t |-> "folder", name |-> <<>>, cat |-> catName, n |-> 0])
  /\ catIdx' = catIdx + 1
  /\ UNCHANGED <<items, parents, mainCreated, pc, runs, prev, mainFolder,
                 rootFiles, rootFolders, cur, targetCat, movedCount, cvars, wvars, rvars>>

\* let movedCount = 0; const rootFiles = root.getFiles()
ListRootFiles ==
  /\ pc = "cats"
  /\ catIdx = Len(categories)
  /\ movedCount' = 0
  /\ rootFiles' = Ascending({i \in ItemIds : /\ items[i].kind = "file"
                                            /\ "root" \in parents[i]})
  /\ pc' = "files"
  /\ UNCHANGED <<store, runs, prev, mainFolder, catIdx, createdCats, rootFolders,
                 cur, targetCat, log, cvars, wvars, rvars>>

\* rootFiles.next() and the classification of the file
NextFile ==
  /\ pc = "files"
  /\ rootFiles # <<>>
  /\ cur' = Head(rootFiles)
  /\ rootFiles' = Tail(rootFiles)
  /\ targetCat' = FileTargetCat(items[Head(rootFiles)].name)
  /\ pc' = "file_add"
  /\ UNCHANGED <<store, runs, prev, mainFolder, catIdx, createdCats, rootFolders,
                 movedCount, log, cvars, wvars, rvars>>

\* an addFile that adds nothing
addFile_dropped(folder, item) == parents

\* a removeFile that removes nothing
removeFile_forgotten(folder, item) == parents

\* folder.addFile(item): the item is now also held by the folder
addFile(folder, item) == [parents EXCEPT ![item] = @ \cup {folder}]

\* folder.removeFile(item): the item is no longer held by the folder
removeFile(folder, item) == [parents EXCEPT ![item] = @ \ {folder}]

\* a first step of the move that takes the file out of the root before it
\* has been added to the destination
AddFile_removesFirst ==
  /\ pc = "file_add"
  /\ parents' = removeFile("root", cur)
  /\ pc' = "file_remove"
  /\ UNCHANGED <<items, mainCreated, catFolders, runs, prev, locals, cvars, wvars, rvars>>

\* targetFolder.addFile(file)
AddFile ==
  /\ pc = "file_add"
  /\ parents' = addFile(targetCat, cur)
  /\ pc' = "file_remove"
  /\ UNCHANGED <<items, mainCreated, catFolders, runs, prev, locals, cvars, wvars, rvars>>

\* root.removeFile(file); movedCount++
RemoveFile ==
  /\ pc = "file_remove"
  /\ parents' = removeFile("root", cur)
  /\ movedCount' = movedCount + 1
  /\ pc' = "file_log"
  /\ UNCHANGED <<items, mainCreated, catFolders, runs, prev, mainFolder, catIdx,
                 createdCats, rootFiles, rootFolders, cur, targetCat, log,
                 cvars, wvars, rvars>>

\* Logger.log(file.getName() -> targetCat): the name is asked of Drive again
LogFile ==
  /\ pc = "file_log"
  /\ log' = Append(log, [t |-> "file", name |-> items[cur].name, cat |-> targetCat, n |-> 0])
  /\ pc' = "files"
  /\ UNCHANGED <<store, runs, prev, mainFolder, catIdx, createdCats, rootFiles,
                 rootFolders, cur, targetCat, movedCount, cvars, wvars, rvars>>

\* const rootFolders = root.getFolders(), once the file loop has ended
ListRootFolders ==
  /\ pc = "files"
  /\ rootFiles = <<>>
  /\ rootFolders' = Ascending({i \in ItemIds : /\ items[i].kind = "folder"
                                              /\ "root" \in parents[i]}
                               \cup (IF mainCreated THEN {0} ELSE {}))
  /\ pc' = "folders"
  /\ UNCHANGED <<store, runs, prev, mainFolder, catIdx, createdCats, rootFiles,
                 cur, targetCat, movedCount, log, cvars, wvars, rvars>>

\* rootFolders.next(), the two skip tests, the classification of the folder
NextFolder ==
  /\ pc = "folders"
  /\ rootFolders # <<>>
  /\ rootFolders' = Tail(rootFolders)
  /\ IF FolderSkipped(FolderNameOf(Head(rootFolders)))
       THEN UNCHANGED <<pc, cur, targetCat>>
       ELSE /\ cur' = Head(rootFolders)
            /\ targetCat' = FolderTargetCat(FolderNameOf(Head(rootFolders)))
            /\ pc' = "folder_add"
  /\ UNCHANGED <<store, runs, prev, mainFolder, catIdx, createdCats, rootFiles,
                 movedCount, log, cvars, wvars, rvars>>

\* targetFolder.addFile(folder)
AddFolder ==
  /\ pc = "folder_add"
  /\ parents' = addFile(targetCat, cur)
  /\ pc' = "folder_remove"
  /\ UNCHANGED <<items, mainCreated, catFolders, runs, prev, locals, cvars, wvars, rvars>>

\* root.removeFile(folder); movedCount++; Logger.log(name -> targetCat)
RemoveFolder ==
  /\ pc = "folder_remove"
  /\ parents' = removeFile("root", cur)
  /\ movedCount' = movedCount + 1
  /\ log' = Append(log, [t |-> "dir", name |-> items[cur].name, cat |-> targetCat, n |-> 0])
  /\ pc' = "folders"
  /\ UNCHANGED <<items, mainCreated, catFolders, runs, prev, mainFolder, catIdx,
                 createdCats, rootFiles, rootFolders, cur, targetCat, cvars, wvars, rvars>>

\* a Drive call throws (the lookup or creation of the main folder or of a
\* category folder, an iterator of the root, getName, addFile, removeFile):
\* nothing in organizeDrive catches it, so the exception ends the run where
\* it is
DriveCallThrows ==
  /\ pc \in {"main", "cats", "files", "folders",
             "file_add", "file_remove", "file_log", "folder_add", "folder_remove"}
  /\ pc' = "aborted"
  /\ UNCHANGED <<store, runs, prev, locals, cvars, wvars, rvars>>

\* the folder loop has ended: the closing summary, with movedCount
Finish ==
  /\ pc = "folders"
  /\ rootFolders = <<>>
  /\ log' = Append(log, [t |-> "summary", name |-> <<>>, cat |-> "", n |-> movedCount])
  /\ pc' = "done"
  /\ UNCHANGED <<store, runs, prev, mainFolder, catIdx, createdCats, rootFiles,
                 rootFolders, cur, targetCat, movedCount, cvars, wvars, rvars>>

NextDrive ==
  \/ StartRun
  \/ GetMainFolder
  \/ GetCategoryFolder
  \/ ListRootFiles
  \/ NextFile
  \/ AddFile
  \/ RemoveFile
  \/ LogFile
  \/ ListRootFolders
  \/ NextFolder
  \/ AddFolder
  \/ RemoveFolder
  \/ DriveCallThrows
  \/ Finish

SpecDrive == InitDrive /\ [][NextDrive]_vars

-----------------------------------------------------------------------------
(* The cost widget: the handlers.                                          *)

\* the calls of fetchCostData explored: MaxRefresh in all, of which at most
\* MaxInflight are pending at once
CanDispatch == Len(dispatched) < MaxRefresh /\ Cardinality(inflight) < MaxInflight

\* fetchCostData() up to its first await: the two fetches are sent; open is
\* the value of isOpen at that moment
fetchCostData(by, open) ==
  /\ inflight' = inflight \cup
       {[id |-> Len(dispatched) + 1, stage |-> "fetch", modelsOk |-> TRUE]}
  /\ dispatched' = Append(dispatched, [by |-> by, open |-> open])

\* a click handler that toggles the panel and never refreshes
Click_noFetch ==
  /\ isOpen' = ~isOpen
  /\ panelVisible' = isOpen'
  /\ UNCHANGED <<inflight, dispatched>>
  /\ UNCHANGED <<dom, lastOk, lastDone, server, cvars, dvars, rvars>>

\* the button's click handler
Click ==
  /\ isOpen \/ CanDispatch
  /\ isOpen' = ~isOpen
  /\ panelVisible' = isOpen'
  /\ IF isOpen'
       THEN fetchCostData("click", isOpen')
       ELSE UNCHANGED <<inflight, dispatched>>
  /\ UNCHANGED <<dom, lastOk, lastDone, server, cvars, dvars, rvars>>

\* a timer callback that refreshes whether the widget is open or not
TimerTick_unguarded ==
  /\ CanDispatch
  /\ fetchCostData("timer", isOpen)
  /\ UNCHANGED <<isOpen, panelVisible, dom, lastOk, lastDone, server,
                 cvars, dvars, rvars>>

\* a timer callback that gives up once the panel shows the error notice
TimerTick_noRetry ==
  /\ ~isOpen \/ CanDispatch
  /\ IF isOpen /\ body # ErrorBody
       THEN fetchCostData("timer", isOpen)
       ELSE UNCHANGED <<inflight, dispatched>>
  /\ UNCHANGED <<isOpen, panelVisible, dom, lastOk, lastDone, server,
                 cvars, dvars, rvars>>

\* the setInterval callback, every REFRESH_INTERVAL
TimerTick ==
  /\ ~isOpen \/ CanDispatch
  /\ IF isOpen
       THEN fetchCostData("timer", isOpen)
       ELSE UNCHANGED <<inflight, dispatched>>
  /\ UNCHANGED <<isOpen, panelVisible, dom, lastOk, lastDone, server,
                 cvars, dvars, rvars>>

\* the catch branch of call r, whose try block had read the summary s
\* (NoSummary when it read none): the error notice replaces body.innerHTML
Catch(r, s, net, summaryOk, modelsOk) ==
  /\ body' = ErrorBody
  /\ lastUpdate' = "failed"
  /\ inflight' = inflight \ {r}
  /\ lastDone' = [any |-> TRUE, net |-> net, summaryOk |-> summaryOk,
                  modelsOk |-> modelsOk, ok |-> FALSE, summary |-> s]
  /\ UNCHANGED <<btnBackground, lastOk>>

\* an end of the try block that writes the DOM only while the widget is open
Render_onlyWhileOpen(r, s, models) ==
  /\ IF isOpen
       THEN /\ body' = DataBody(s, models)
            /\ lastUpdate' = "updated"
            /\ btnBackground' = buttonBackground(s.status)
       ELSE UNCHANGED <<body, lastUpdate, btnBackground>>
  /\ inflight' = inflight \ {r}
  /\ lastDone' = [any |-> TRUE, net |-> TRUE, summaryOk |-> TRUE,
                  modelsOk |-> r.modelsOk, ok |-> TRUE, summary |-> s]
  /\ lastOk' = IF r.id > lastOk.id
                 THEN [id |-> r.id, cards |-> renderCards(s, models)]
                 ELSE lastOk

\* the end of the try block of call r, which read the summary s: body,
\* lastUpdate and the button
Render(r, s, models) ==
  /\ body' = DataBody(s, models)
  /\ lastUpdate' = "updated"
  /\ btnBackground' = buttonBackground(s.status)
  /\ inflight' = inflight \ {r}
  /\ lastDone' = [any |-> TRUE, net |-> TRUE, summaryOk |-> TRUE,
                  modelsOk |-> r.modelsOk, ok |-> TRUE, summary |-> s]
  /\ lastOk' = IF r.id > lastOk.id
                 THEN [id |-> r.id, cards |-> renderCards(s, models)]
                 ELSE lastOk

\* await Promise.all([fetch(summary), fetch(models)]) ends for call r, then
\* if (!summaryRes.ok) throw
FetchSettles ==
  /\ \E r \in inflight :
       /\ r.stage = "fetch"
       /\ \E a \in AnswersNow :
            IF ~a.net \/ ~a.summaryOk
              THEN Catch(r, NoSummary, a.net, a.summaryOk, a.modelsOk)
              ELSE /\ inflight' = (inflight \ {r}) \cup
                        {[r EXCEPT !.stage = "json_summary", !.modelsOk = a.modelsOk]}
                   /\ UNCHANGED <<dom, lastOk, lastDone>>
  /\ UNCHANGED <<isOpen, panelVisible, dispatched, server, cvars, dvars, rvars>>

\* await summaryRes.json() ends for call r: the body is not JSON and the
\* call throws, or it is parsed
SummaryParsed ==
  /\ \E r \in inflight :
       /\ r.stage = "json_summary"
       /\ \/ server # "up" /\ Catch(r, NoSummary, TRUE, TRUE, r.modelsOk)
          \/ /\ inflight' = (inflight \ {r}) \cup {[r EXCEPT !.stage = "json_models"]}
             /\ UNCHANGED <<dom, lastOk, lastDone>>
  /\ UNCHANGED <<isOpen, panelVisible, dispatched, server, cvars, dvars, rvars>>

\* await modelsRes.json() ends for call r: the body is not JSON and the call
\* throws, or the rest of the try block runs on the summary s and the models
\* m, and throws on reading s or renders
ModelsParsed ==
  /\ \E r \in inflight :
       /\ r.stage = "json_models"
       /\ \E m \in ModelsNow :
            IF m = "notjson"
              THEN Catch(r, NoSummary, TRUE, TRUE, r.modelsOk)
              ELSE \E s \in SummariesNow :
                     IF ~s.readable
                       THEN Catch(r, s, TRUE, TRUE, r.modelsOk)
                       ELSE Render(r, s, m)
  /\ UNCHANGED <<isOpen, panelVisible, dispatched, server, cvars, dvars, rvars>>

Init == InitWidget /\ IdleDrive /\ IdleClassify /\ IdleRender

Next == Click \/ TimerTick \/ FetchSettles \/ SummaryParsed \/ ModelsParsed

Spec == Init /\ [][Next]_vars

\* the widget mounted while the endpoints are unreachable
InitRetry ==
  /\ isOpen = FALSE
  /\ panelVisible = FALSE
  /\ body = LoadingBody
  /\ lastUpdate = "waiting"
  /\ btnBackground = "linear-gradient(135deg, #6366f1, #a855f7)"
  /\ inflight = {[id |-> 1, stage |-> "fetch", modelsOk |-> TRUE]}
  /\ dispatched = <<[by |-> "mount", open |-> FALSE]>>
  /\ lastOk = [id |-> 0, cards |-> <<>>]
  /\ lastDone = NoneDone
  /\ server = "down"
  /\ IdleDrive /\ IdleClassify /\ IdleRender

\* the endpoints recover, while a refresh can still be dispatched: from here
\* on every answer is a success
ServerRecovers ==
  /\ server = "down"
  /\ Len(dispatched) < MaxRefresh
  /\ server' = "up"
  /\ UNCHANGED <<isOpen, panelVisible, dom, inflight, dispatched, lastOk, lastDone,
                 cvars, dvars, rvars>>

NextRetry ==
  \/ Click
  \/ TimerTick
  \/ FetchSettles
  \/ SummaryParsed
  \/ ModelsParsed
  \/ ServerRecovers

\* the widget with endpoints that are down and recover at some point or
\* never, a timer that keeps firing and responses that keep arriving
SpecRetry ==
  /\ InitRetry
  /\ [][NextRetry]_vars
  /\ WF_vars(TimerTick)
  /\ WF_vars(FetchSettles)
  /\ WF_vars(SummaryParsed)
  /\ WF_vars(ModelsParsed)

-----------------------------------------------------------------------------
(* The budget card, for every used_pct and status.                         *)

InitRender ==
  /\ rPct \in 0..MaxPct
  /\ rStatus \in StatusSamples
  /\ rOut = <<>>
  /\ rBtn = ""
  /\ IdleWidget /\ IdleDrive /\ IdleClassify

\* the budget card of the html and the button's background, for
\* summary.budget = {used_pct, status}
RenderBudget ==
  /\ rOut = <<>>
  /\ rOut' = renderCards(Summary(Num(0), Num(0), Num(0), Num(rPct), rStatus, Num(0)),
                         "absent")
  /\ rBtn' = buttonBackground(rStatus)
  /\ UNCHANGED <<rPct, rStatus, cvars, dvars, wvars>>

NextRender == RenderBudget

SpecRender == InitRender /\ [][NextRender]_vars

-----------------------------------------------------------------------------
(* Properties of the widget's refreshes (specification Spec).              *)

\* C1: once every dispatched refresh has completed and the panel shows data,
\* the data shown is that of the most recently dispatched successful refresh;
\* a stale response arriving later does not overwrite it.
C1_LatestDispatchedWins ==
  (inflight = {} /\ body.notice = "" /\ lastOk.id > 0) => body.cards = lastOk.cards

\* C2: when a refresh fails after an earlier refresh succeeded, the values
\* rendered from the earlier snapshot stay visible together with the error
\* indicator.
C2_FailureKeepsSnapshot ==
  (lastOk.id > 0 /\ lastDone.any /\ ~lastDone.ok) =>
    (body.notice = "error" /\ body.cards # <<>>)

\* C6: every refresh dispatched while isOpen is false is the pre-fetch at
\* mount, and there is one of it; a timer tick while closed dispatches none.
C6_NoPollingWhileClosed ==
  \A k \in 1..Len(dispatched) :
    ~dispatched[k].open => (dispatched[k].by = "mount" /\ k = 1)

\* C6 witness: the widget is closed again after a click and a timer tick
\* have each dispatched a refresh
C6_Witness ==
  /\ ~isOpen
  /\ \E k \in 1..Len(dispatched) : dispatched[k].by = "timer"
  /\ \E k \in 1..Len(dispatched) : dispatched[k].by = "click"

\* C7: a refresh in which the summary or the models endpoint answered with a
\* non-success status ends in the error state and renders no data.
C7_EitherStatusFailsRefresh ==
  (lastDone.any /\ lastDone.net /\ (~lastDone.summaryOk \/ ~lastDone.modelsOk)) =>
    (~lastDone.ok /\ body = ErrorBody)

-----------------------------------------------------------------------------
(* Properties of the budget card (specification SpecRender).               *)

\* C9: the bar colour follows used_pct alone: green below 80, amber from 80
\* up to but not including 100, red from 100 on.
C9_BarColourBoundaries ==
  rOut # <<>> =>
    /\ rPct < 80 => rOut[1].barColor = "#22c55e"
    /\ (80 <= rPct /\ rPct < 100) => rOut[1].barColor = "#f59e0b"
    /\ rPct >= 100 => rOut[1].barColor = "#ef4444"

\* C9 witness: the card rendered for used_pct = 80 is amber
C9_Witness == rOut # <<>> /\ rPct = 80 /\ rOut[1].barColor = "#f59e0b"

-----------------------------------------------------------------------------
(* Properties of the classification (specification SpecClassify).          *)

\* the extension of a name as the data model states it: the lower-cased part
\* after the last '.', empty when the name has no '.'
DottedExtension(name) ==
  LET dots == {i \in 1..Len(name) : name[i] = "."}
  IN  IF dots = {} THEN <<>>
      ELSE toLowerCase(SubSeq(name, SetMax(dots) + 1, Len(name)))

\* two code units that are equal up to case: the same one, the two cases of
\* an ASCII letter, or a letter and its lower-case form
SameLetter(a, b) ==
  \/ a = b
  \/ \E i \in 1..Len(UpperChars) :
       \/ a = UpperChars[i] /\ b = LowerChars[i]
       \/ a = LowerChars[i] /\ b = UpperChars[i]
  \/ a \in HasLowerBMP /\ LowerOfBMP[a] = b
  \/ b \in HasLowerBMP /\ LowerOfBMP[b] = a

\* kw occurs somewhere in name, compared letter by letter ignoring case
ContainsIgnoringCase(name, kw) ==
  \E off \in 0..(Len(name) - Len(kw)) :
    \A j \in 1..Len(kw) : SameLetter(name[off + j], kw[j])

\* rule i has a keyword contained in name
MatchesByKeyword(i, name) ==
  /\ categories[i].hasKeywords
  /\ \E j \in 1..Len(categories[i].keywords) :
       ContainsIgnoringCase(name, categories[i].keywords[j])

\* rule i lists the extension of name
MatchesByExtension(i, name) ==
  /\ categories[i].hasExtensions
  /\ \E j \in 1..Len(categories[i].extensions) :
       categories[i].extensions[j] = DottedExtension(name)

\* C5: a file whose extension is in a rule's extension set is assigned to that
\* rule, whatever keywords of other (earlier) rules its name contains.
C5_ExtensionBeforeKeyword ==
  (cKind = "file" /\ cTarget # NoTarget) =>
    \A a \in 1..Len(categories) :
      MatchesByExtension(a, cName) => cTarget = categories[a].name

\* C5 witness: alpha.png, whose name holds the keyword 'alpha' of the first
\* rule, is assigned to the media rule by its extension
C5_Witness ==
  /\ cKind = "file"
  /\ cName = <<"a","l","p","h","a",".","p","n","g">>
  /\ MatchesByKeyword(1, cName)
  /\ cTarget = categories[8].name

\* C10: an item classified by keyword (a folder, or a file no extension rule
\* takes) gets a rule exactly when a keyword of some rule occurs in its name
\* as a substring, case ignored, and the rule it gets has such a keyword.
C10_KeywordIsCaseInsensitiveSubstring ==
  (/\ cTarget # NoTarget
   /\ \/ cKind = "folder"
      \/ cTarget \notin {categories[8].name, categories[9].name}) =>
    /\ (cTarget # DefaultCat) <=>
         (\E i \in 1..Len(categories) : MatchesByKeyword(i, cName))
    /\ \A i \in 1..Len(categories) :
         (cTarget = categories[i].name /\ cTarget # DefaultCat) =>
           MatchesByKeyword(i, cName)

\* C10 witness: the name TAX_REPORT.pdf, classified by keyword, is taken by
\* the rule holding the keyword 'tax'
C10_Witness ==
  /\ cKind = "folder"
  /\ cName = <<"T","A","X","_","R","E","P","O","R","T",".","p","d","f">>
  /\ cTarget = categories[4].name

-----------------------------------------------------------------------------
(* Properties of organizeDrive on the store (specification SpecDrive).     *)

\* the items organizeDrive relocates: every file, and every folder the folder
\* pass does not skip
Relocatable(i) == items[i].kind = "file" \/ ~FolderSkipped(items[i].name)

\* the category the code computes for each shape of item
ShapeCategory ==
  [s \in ItemShapes |->
     IF s.kind = "file" THEN FileTargetCat(s.name) ELSE FolderTargetCat(s.name)]

\* the category the code computes for item i
CategoryOf(i) == ShapeCategory[items[i]]

\* C3 as stated: after a completed run every root item, file or folder, is
\* held by exactly one category container.
C3_EveryRootItemRelocated ==
  pc = "done" => \A i \in ItemIds : \E c \in CatNames : parents[i] = {c}

\* C3 as amended: after a completed run every file, and every folder other
\* than the main folder and those named with two digits and an underscore, is
\* held by exactly its category's container; the skipped folders stay in the
\* root.
C3_EveryUnskippedItemRelocated ==
  pc = "done" =>
    \A i \in ItemIds :
      IF Relocatable(i) THEN parents[i] = {CategoryOf(i)}
                        ELSE parents[i] = {"root"}

\* C3 witness: a completed run that moved a file to its category's
\* container and skipped a folder
C3_Witness ==
  /\ pc = "done"
  /\ \E i \in ItemIds : items[i].kind = "file" /\ parents[i] = {CategoryOf(i)}
  /\ \E i \in ItemIds : ~Relocatable(i) /\ parents[i] = {"root"}

\* C4: at every step of every run, completed or aborted, every item of the
\* store is still held by a container: no identity is lost, only the
\* containers of an item change.
C4_NoItemDeleted ==
  /\ DOMAIN parents = DOMAIN items
  /\ \A i \in ItemIds : parents[i] # {}

\* C4 witness: a run aborted between the two steps of a move, after an
\* earlier item was moved
C4_Witness ==
  /\ pc = "aborted"
  /\ \E i \in ItemIds : "root" \notin parents[i]
  /\ \E i \in ItemIds : Cardinality(parents[i]) = 2

\* C8: when a move fails the run goes on: when the run has ended, every other
\* relocatable item has been moved and the log ends with the summary.
C8_MoveFailureContinues ==
  (pc = "aborted" /\ cur # 0) =>
    /\ log # <<>> /\ log[Len(log)].t = "summary"
    /\ \A i \in ItemIds \ {cur} : Relocatable(i) => "root" \notin parents[i]

-----------------------------------------------------------------------------
(* Further properties of the classification (specification SpecClassify).  *)

\* rule i matches the item: by a keyword, or, for a file, by its extension
RuleMatches(i, kind, name) ==
  \/ MatchesByKeyword(i, name)
  \/ kind = "file" /\ MatchesByExtension(i, name)

\* C11: an item is assigned to the catch-all category exactly when no rule
\* matches it by extension or by keyword.
C11_CatchAllIffNoRuleMatches ==
  cTarget # NoTarget =>
    ((cTarget = DefaultCat) <=>
       ~(\E i \in 1..Len(categories) : RuleMatches(i, cKind, cName)))

\* C16: a file whose name has no '.' has an empty extension and is taken by
\* no extension rule: it gets a rule holding a keyword found in its name, or
\* the catch-all.
C16_NoDotNoExtension ==
  (/\ cKind = "file"
   /\ cTarget # NoTarget
   /\ \A k \in 1..Len(cName) : cName[k] # ".") =>
    \/ cTarget = DefaultCat
    \/ \E i \in 1..Len(categories) :
         cTarget = categories[i].name /\ MatchesByKeyword(i, cName)

\* C17: an item classified by keyword goes to the first rule in declaration
\* order that holds a matching keyword, wherever in the name the keywords
\* occur and however long they are: no rule declared before the one it gets
\* holds a keyword found in its name.
C17_FirstKeywordRuleWins ==
  (/\ cTarget # NoTarget
   /\ \/ cKind = "folder"
      \/ cTarget \notin {categories[8].name, categories[9].name}) =>
    \A i \in 1..Len(categories) :
      cTarget = categories[i].name =>
        /\ cTarget # DefaultCat => MatchesByKeyword(i, cName)
        /\ \A j \in 1..(i - 1) : ~MatchesByKeyword(j, cName)

\* C17 witness: in 'taxalpha' the keyword 'tax' of the fourth rule comes
\* first in the name, and the item goes to the first rule for 'alpha'
C17_Witness ==
  /\ cKind = "folder"
  /\ cName = <<"t","a","x","a","l","p","h","a">>
  /\ MatchesByKeyword(4, cName)
  /\ cTarget = categories[1].name


-----------------------------------------------------------------------------
(* Further properties of the widget's refreshes (specification Spec).      *)

\* C12: every refresh that failed -- the server unreachable, a non-success
\* status from either endpoint, or a payload that could not be parsed or
\* lacked the fields read -- has ended in the catch branch: the panel shows
\* the one error notice naming the endpoint and the footer says failed.
C12_EveryFailureShowsTheErrorNotice ==
  (/\ lastDone.any
   /\ \/ ~lastDone.net
      \/ ~lastDone.summaryOk
      \/ ~lastDone.modelsOk
      \/ ~Complete(lastDone.summary)
      \/ ~lastDone.ok) =>
    (body = ErrorBody /\ lastUpdate = "failed")

\* C13: a toggle of the closed widget opens the panel and dispatches exactly
\* one refresh, which is then pending (Open-Loading); a toggle of the open
\* widget, whatever it shows, closes the panel and dispatches nothing.
C13_ToggleOpensAndFetchesOrCloses ==
  [][ (isOpen' # isOpen) =>
        IF ~isOpen
          THEN /\ isOpen' /\ panelVisible'
               /\ dispatched' = Append(dispatched, [by |-> "click", open |-> TRUE])
               /\ Cardinality(inflight' \ inflight) = 1
               /\ inflight \subseteq inflight'
               /\ \A r \in inflight' \ inflight :
                    r.id = Len(dispatched') /\ r.stage = "fetch"
          ELSE /\ ~isOpen' /\ ~panelVisible'
               /\ dispatched' = dispatched
               /\ inflight' = inflight ]_vars

\* C13 witness: the widget was opened by a click, which dispatched a refresh,
\* and closed again while that refresh, still the last one dispatched, is
\* pending
C13_Witness ==
  /\ ~isOpen /\ ~panelVisible
  /\ Len(dispatched) >= 2
  /\ dispatched[Len(dispatched)].by = "click"
  /\ \E r \in inflight : r.id = Len(dispatched) /\ r.stage = "fetch"

-----------------------------------------------------------------------------
(* Further properties of the budget card (specification SpecRender).       *)

\* C14: the status dot's colour and the button's background follow the
\* reported status alone (ok green, warn amber, over red) and the bar's
\* colour follows used_pct alone, for every pair of status and used_pct:
\* neither is adjusted to agree with the other, and the percentage shown is
\* the one reported.
C14_StatusAndBarRenderedAsReported ==
  rOut # <<>> =>
    /\ rOut[1].used_pct = Num(rPct)
    /\ rStatus = "ok" =>
         /\ rOut[1].statusColor = "#22c55e"
         /\ rBtn = "linear-gradient(135deg, #6366f1, #a855f7)"
    /\ rStatus = "warn" =>
         /\ rOut[1].statusColor = "#f59e0b"
         /\ rBtn = "linear-gradient(135deg, #f59e0b, #d97706)"
    /\ rStatus = "over" =>
         /\ rOut[1].statusColor = "#ef4444"
         /\ rBtn = "linear-gradient(135deg, #ef4444, #dc2626)"
    /\ rOut[1].barColor =
         IF rPct < 80 THEN "#22c55e"
         ELSE IF rPct < 100 THEN "#f59e0b"
         ELSE "#ef4444"

\* C14 witness: status ok with used_pct 120 is rendered with a green dot and
\* a red bar
C14_Witness ==
  /\ rOut # <<>>
  /\ rStatus = "ok" /\ rPct = 120
  /\ rOut[1].statusColor = "#22c55e"
  /\ rOut[1].barColor = "#ef4444"

-----------------------------------------------------------------------------
(* Further properties of organizeDrive (specification SpecDrive).          *)

\* C15, as stated: containers are created lazily, so after a completed run
\* every category container the run created holds at least one item.
C15_CreatedContainerHoldsAnItem ==
  pc = "done" =>
    \A c \in createdCats : \E i \in ItemIds : c \in parents[i]

\* C15, amended: containers are created eagerly.  The run looks up or creates
\* the container of every category before it classifies any item, whether
\* or not an item will be assigned to it; the containers are gone through
\* once, in the order of the table, so that a container is created at most
\* once in a run, and the created ones stay.
C15_ContainersCreatedEagerly ==
  /\ createdCats \subseteq catFolders
  /\ (pc \in {"files", "file_add", "file_remove", "file_log",
              "folders", "folder_add", "folder_remove", "done"}
        \/ cur # 0 \/ movedCount > 0) =>
       catFolders = CatNames
  /\ pc = "cats" => \A k \in 1..Len(log) : log[k].t = "folder"
  /\ \A k \in 1..Len(log) :
       log[k].t = "folder" => (k <= Len(categories) /\ log[k].cat = categories[k].name)

\* C15 witness: a completed run that created all the containers and moved an
\* item, and left a container it created without any item
C15_Witness ==
  /\ pc = "done"
  /\ movedCount >= 1
  /\ createdCats = CatNames
  /\ \E c \in createdCats : \A i \in ItemIds : c \notin parents[i]

\* C19: a move adds the item to its destination before it removes it from
\* the root.  In every state each item is held by the root or a category
\* container; between the two steps of a move the item is held by both; and
\* wherever a run stands or has aborted, the item it last took up is held by
\* the root alone, by the root and its destination, or by its destination
\* alone, never by neither.
C19_AddBeforeRemove ==
  /\ \A i \in ItemIds : parents[i] \cap ({"root"} \cup CatNames) # {}
  /\ pc \in {"file_remove", "folder_remove"} =>
       {"root", targetCat} \subseteq parents[cur]
  /\ cur # 0 =>
       parents[cur] \in {{"root"}, {"root", targetCat}, {targetCat}}

\* C19 witness: a run aborted between the two steps of the move of a folder,
\* which is held by the root and by its destination
C19_Witness ==
  /\ pc = "aborted"
  /\ cur # 0
  /\ items[cur].kind = "folder"
  /\ targetCat # DefaultCat
  /\ parents[cur] = {"root", targetCat}

\* the names the folder pass leaves alone: the main project folder's, and
\* any name beginning with two digits and an underscore
NamedAsManaged(name) ==
  \/ name = MainFolderName
  \/ /\ Len(name) >= 3
     /\ \E a, b \in Digits : name[1] = a /\ name[2] = b
     /\ name[3] = "_"

\* C20: a root folder that is the main project folder or whose name begins
\* with two digits and an underscore is never taken up, classified or moved,
\* whatever keywords its name contains: it is held by the root alone in every
\* state, and no move logged names such a folder.
C20_ManagedFoldersStayInRoot ==
  /\ \A i \in ItemIds :
       (items[i].kind = "folder" /\ NamedAsManaged(items[i].name)) =>
         (parents[i] = {"root"} /\ cur # i)
  /\ \A k \in 1..Len(log) : log[k].t = "dir" => ~NamedAsManaged(log[k].name)

\* C20 witness: a completed run moved the folder 'tax' and left the folder
\* '01_tax', whose name contains the same keyword, in the root
C20_Witness ==
  /\ pc = "done"
  /\ \E i \in ItemIds : /\ items[i] = [kind |-> "folder", name |-> <<"t","a","x">>]
                        /\ "root" \notin parents[i]
  /\ \E i \in ItemIds : /\ items[i] = [kind |-> "folder",
                                       name |-> <<"0","1","_","t","a","x">>]
                        /\ parents[i] = {"root"}

-----------------------------------------------------------------------------
(* Retry after a failure (specification SpecRetry).                        *)

\* C18: a failure is retried by the timer alone.  Once the endpoints have
\* recovered, an open widget showing the error notice with no refresh
\* pending gets, unless it is closed, a refresh dispatched by the timer; and
\* an open widget showing the error notice comes, unless it is closed, to
\* show the data.
C18_TimerRetriesUntilData ==
  /\ (server = "up" /\ isOpen /\ body = ErrorBody /\ inflight = {})
       ~> \/ ~isOpen
          \/ /\ dispatched[Len(dispatched)].by = "timer"
             /\ \E r \in inflight : r.id = Len(dispatched)
  /\ (server = "up" /\ isOpen /\ body = ErrorBody)
       ~> (~isOpen \/ body.notice = "")

\* C18 witness: the endpoints were down and are up, and the open widget
\* shows the data of the last refresh, which the timer dispatched
C18_Witness ==
  /\ server = "up" /\ isOpen
  /\ lastDone.any /\ lastDone.ok
  /\ body.notice = "" /\ body.cards # <<>>
  /\ inflight = {}
  /\ lastOk.id = Len(dispatched)
  /\ dispatched[Len(dispatched)].by = "timer"

-----------------------------------------------------------------------------
(* Running organizeDrive again (specification SpecDrive).                  *)

\* C21: a run started directly after a completed run changes nothing.  At
\* every step of it, and when it has ended, no item has been taken up or
\* moved, the main folder is found in the root and no category container
\* has been created, and the store is the one the run before left: every item
\* is held by the container that run put it in.
C21_SecondRunChangesNothing ==
  (prev.done /\ pc # "idle") =>
    /\ movedCount = 0
    /\ cur = 0
    /\ pc \notin {"file_add", "file_remove", "file_log",
                 "folder_add", "folder_remove"}
    /\ \A k \in 1..Len(log) : log[k].t \notin {"file", "dir"}
    /\ MainFoldersInRoot # {}
    /\ createdCats = {}
    /\ mainCreated = prev.mainCreated
    /\ catFolders = prev.catFolders
    /\ parents = prev.parents

\* C21 witness: a run after a completed run that had created the folders and
\* moved a file and a folder has completed too, with nothing moved
C21_Witness ==
  /\ prev.done
  /\ pc = "done"
  /\ log[Len(log)] = [t |-> "summary", name |-> <<>>, cat |-> "", n |-> 0]
  /\ mainCreated
  /\ \E i \in ItemIds : items[i].kind = "file" /\ "root" \notin parents[i]
  /\ \E i \in ItemIds : items[i].kind = "folder" /\ "root" \notin parents[i]

-----------------------------------------------------------------------------
(* Responses that arrive while the widget is closed (specification Spec).  *)

\* C22: the outcome of every refresh is applied when its response arrives,
\* whether the widget is open or closed at that moment.  The step at which a
\* call ends leaves isOpen alone and writes the panel: on success the cards
\* of that call's summary, the updated footer and the button background of
\* its status; on failure the error notice and the failed footer, the button
\* being left as it was.
C22_OutcomeAppliedOpenOrClosed ==
  [][ (inflight' # inflight /\ inflight' \subseteq inflight) =>
        LET s == lastDone'.summary
        IN  /\ isOpen' = isOpen
            /\ lastDone'.any
            /\ IF lastDone'.ok
                 THEN /\ body'.notice = ""
                      /\ Len(body'.cards) = 1
                      /\ body'.cards[1].today_krw = Number(s.today_krw)
                      /\ body'.cards[1].used_pct = s.used_pct
                      /\ lastUpdate' = "updated"
                      /\ btnBackground' =
                           IF s.status = "over"
                             THEN "linear-gradient(135deg, #ef4444, #dc2626)"
                           ELSE IF s.status = "warn"
                             THEN "linear-gradient(135deg, #f59e0b, #d97706)"
                           ELSE "linear-gradient(135deg, #6366f1, #a855f7)"
                 ELSE /\ body' = ErrorBody
                      /\ lastUpdate' = "failed"
                      /\ btnBackground' = btnBackground ]_vars

\* C22 witness: the widget has never been opened -- the refresh of the mount
\* is the only one dispatched -- and it is closed, yet its panel holds the
\* data of that refresh and its button has the colour of the warn status
C22_Witness ==
  /\ ~isOpen
  /\ Len(dispatched) = 1
  /\ inflight = {}
  /\ body.notice = "" /\ body.cards # <<>>
  /\ lastUpdate = "updated"
  /\ btnBackground = "linear-gradient(135deg, #f59e0b, #d97706)"
=============================================================================
